---- MODULE Spec2Model ----
(***************************************************************************)
(* Model of the OpenAI-compatible chat-completions gateway adapter          *)
(* (src/src/gateway/openai-http.ts), in four parts, each with its own       *)
(* specification: the streaming path of handleOpenAiHttpRequest over one    *)
(* request (Spec), two streaming requests on the shared event bus           *)
(* (SpecBus), the handler from its first line to the dispatch and its       *)
(* non-streaming path (SpecHandler), and buildAgentPrompt (SpecPrompt);     *)
(* of the synchronisation of external CLI credentials                       *)
(* (src/src/agents/auth-profiles/external-cli-sync.ts, SpecSync, and        *)
(* SpecSyncSeq for a sequence of calls); of the announce flow of a          *)
(* sub-agent's result (SpecAnnounce); of the tenant resolver                *)
(* (src/extensions/otto/middleware/tenant.ts, SpecTenant); and of the       *)
(* pipeline service (src/extensions/otto/services/pipeline.ts,              *)
(* SpecPipeline, and SpecPipelineFair where every script exits).            *)
(*                                                                          *)
(* A JavaScript string is a sequence of one-character strings, so that      *)
(* trim() and join() are computed rather than assumed.                      *)
(***************************************************************************)
EXTENDS Integers, Sequences, FiniteSets, TLC

VARIABLES
    wroteRole,        \* let wroteRole                       (line 310)
    closed,           \* let closed                          (line 311)
    agentRunStarted,  \* let agentRunStarted                 (line 314)
    finalReplyParts,  \* const finalReplyParts: string[]     (line 315)
    aborted,          \* abortController.signal.aborted      (line 316)
    subscribed,       \* the handler is registered on the event bus
    unsubCalls,       \* number of calls of unsubscribe()
    out,              \* everything written to res, in order
    endCalls,         \* number of calls of res.end()
    pc,               \* where the dispatch promise chain stands
    rejection,        \* the reason the promise chain rejected with
    reqClosed,        \* the request's 'close' event has fired
    evt,              \* the last event the bus handed to the handler
    nEvents,          \* number of events published so far
    nDelivers,        \* number of dispatcher deliver() calls so far
    \* two streaming requests on the shared event bus
    streams,          \* per request: runId, wroteRole, closed, out, ...
    busLog,           \* every event published on the bus, in order
    \* handleOpenAiHttpRequest up to the dispatch, and its non-streaming path
    request,          \* the inbound request
    hpc,              \* where the handler stands
    prompt,           \* const prompt = buildAgentPrompt(payload.messages)
    responses,        \* the responses sent with sendJson & co., in order
    sseHeaders,       \* number of calls of setSseHeaders
    subscriptions,    \* number of calls of onAgentEvent
    dispatchCalls,    \* number of calls of dispatchInboundMessage
    nsParts,          \* finalReplyParts of the non-streaming path
    deliveries,       \* the deliver(payload, info) calls made, in order
    returned,         \* what the handler's promise resolved to
    \* buildAgentPrompt as a function
    messagesIn,       \* the argument messagesUnknown
    promptOut,        \* the value returned for it
    \* syncExternalCliCredentials
    store,            \* store.profiles
    storeBefore,      \* store.profiles when the call started
    now,              \* const now = Date.now()
    readCalls,        \* per reader, the number of times it was called
    readResult,       \* per reader, what it returned last
    mutated,          \* let mutated
    spc,              \* where syncExternalCliCredentials stands
    \* runSubagentAnnounceFlow
    announceParams,   \* the parameters of the call
    agentCalls,       \* the gateway `agent` calls made, in order
    apc,              \* where the flow stands
    didAnnounce,      \* the value the flow returned
    \* resolveWorkspaceId and its module-level cache
    tenantRows,       \* the rows of tenant_channel_mappings
    tenantCache,      \* const cache = new Map<string, string>()
    tenantCall,       \* the last call: its context, its query, its result
    tpc,              \* where the tenant resolver stands
    \* the Otto pipeline service
    svc,              \* created, started or stopped
    timers,           \* the timers and intervals that are set
    isPolling,        \* let isPolling
    isContactSyncing, \* let isContactSyncing
    lastDigestDate,   \* let lastDigestDate
    procs,            \* every child process spawned so far, in order
    cycles,           \* every runGmailPoll call so far and how far it is
    clock             \* Date.now(), in hours

streamVars == <<wroteRole, closed, agentRunStarted, finalReplyParts, aborted,
                subscribed, unsubCalls, out, endCalls, pc, rejection,
                reqClosed, evt, nEvents, nDelivers>>

busVars == <<streams, busLog>>

handlerVars == <<request, hpc, prompt, responses, sseHeaders, subscriptions,
                 dispatchCalls, nsParts, deliveries, returned>>

promptVars == <<messagesIn, promptOut>>

syncVars == <<store, storeBefore, now, readCalls, readResult, mutated, spc>>

announceVars == <<announceParams, agentCalls, apc, didAnnounce>>

tenantVars == <<tenantRows, tenantCache, tenantCall, tpc>>

pipelineVars == <<svc, timers, isPolling, isContactSyncing, lastDigestDate,
                  procs, cycles, clock>>

vars == <<streamVars, busVars, handlerVars, promptVars, syncVars,
          announceVars, tenantVars, pipelineVars>>

\* What the steps of one part of the model leave alone.
notStream ==
    <<busVars, handlerVars, promptVars, syncVars,
      announceVars, tenantVars, pipelineVars>>
notBus ==
    <<streamVars, handlerVars, promptVars, syncVars,
      announceVars, tenantVars, pipelineVars>>
notHandler ==
    <<streamVars, busVars, promptVars, syncVars,
      announceVars, tenantVars, pipelineVars>>
notPrompt ==
    <<streamVars, busVars, handlerVars, syncVars,
      announceVars, tenantVars, pipelineVars>>
notSync ==
    <<streamVars, busVars, handlerVars, promptVars,
      announceVars, tenantVars, pipelineVars>>
notAnnounce ==
    <<streamVars, busVars, handlerVars, promptVars,
      syncVars, tenantVars, pipelineVars>>
notTenant ==
    <<streamVars, busVars, handlerVars, promptVars,
      syncVars, announceVars, pipelineVars>>
notPipeline ==
    <<streamVars, busVars, handlerVars, promptVars,
      syncVars, announceVars, tenantVars>>

\* ------------------------------------------------------------------ bounds
MaxEvents == 3      \* events published on the bus during one request
MaxDelivers == 2    \* deliver() calls made by the dispatcher

\* ----------------------------------------------------------------- strings
IsSpace(c) == c \in {" ", "\n"}

RECURSIVE TrimStart(_)
TrimStart(s) ==
    IF s = <<>> THEN <<>>
    ELSE IF IsSpace(Head(s)) THEN TrimStart(Tail(s)) ELSE s

RECURSIVE TrimEnd(_)
TrimEnd(s) ==
    IF s = <<>> THEN <<>>
    ELSE IF IsSpace(s[Len(s)]) THEN TrimEnd(SubSeq(s, 1, Len(s) - 1)) ELSE s

\* String.prototype.trim
Trim(s) == TrimEnd(TrimStart(s))

RECURSIVE Join(_, _)
\* Array.prototype.join
Join(parts, sep) ==
    IF parts = <<>> THEN <<>>
    ELSE IF Len(parts) = 1 THEN parts[1]
    ELSE parts[1] \o sep \o Join(Tail(parts), sep)

BlankLine == <<"\n", "\n">>

\* A value that may or may not be a string (typeof v === "string").
JStr(s) == [str |-> TRUE, val |-> s]
JUndefined == [str |-> FALSE, val |-> <<>>]

\* ------------------------------------------------------------------ chunks
\* The JSON objects written by writeSse, reduced to choices[0]; id, object,
\* created and model are the same on every chunk of a stream.
RoleChunk ==
    [type |-> "chunk", role |-> TRUE, hasContent |-> FALSE, content |-> <<>>,
     finish_reason |-> "absent"]

ContentChunk(content) ==
    [type |-> "chunk", role |-> FALSE, hasContent |-> TRUE, content |-> content,
     finish_reason |-> "null"]

FinishChunk ==
    [type |-> "chunk", role |-> FALSE, hasContent |-> FALSE, content |-> <<>>,
     finish_reason |-> "stop"]

ErrorPrefix == <<"E", "r", "r", "o", "r", ":", " ">>

\* The chunk of the .catch handler: content `Error: ${String(err)}` together
\* with finish_reason "stop".
ErrorChunk(err) ==
    [type |-> "chunk", role |-> FALSE, hasContent |-> TRUE,
     content |-> ErrorPrefix \o err, finish_reason |-> "stop"]

DoneSentinel ==
    [type |-> "done", role |-> FALSE, hasContent |-> FALSE, content |-> <<>>,
     finish_reason |-> "absent"]

WriteSse(o, data) == Append(o, data)

WriteDone(o) == Append(o, DoneSentinel)

\* ------------------------------------------------------------------ inputs
RunId == "chatcmpl_A"
OtherRunId == "chatcmpl_B"

NoData == [delta |-> JUndefined, text |-> JUndefined, phase |-> "none"]

AssistantEvents ==
    { [runId |-> r, stream |-> "assistant",
       data |-> [delta |-> d, text |-> t, phase |-> "none"]] :
        r \in {RunId, OtherRunId},
        d \in {JUndefined, JStr(<<>>), JStr(<<"a">>), JStr(<<"b">>)},
        t \in {JUndefined, JStr(<<"t">>)} }

LifecycleEvents ==
    { [runId |-> r, stream |-> "lifecycle",
       data |-> [delta |-> JUndefined, text |-> JUndefined, phase |-> p]] :
        r \in {RunId, OtherRunId},
        p \in {"start", "end", "error", "other"} }

ToolEvents ==
    { [runId |-> r, stream |-> "tool", data |-> NoData] :
        r \in {RunId, OtherRunId} }

Events == AssistantEvents \cup LifecycleEvents \cup ToolEvents

NoEvent == [runId |-> "none", stream |-> "none", data |-> NoData]

\* payload.text is a string or undefined
Payloads == {JUndefined, JStr(<<" ">>), JStr(<<"h", "i">>),
             JStr(<<" ", "y", "\n">>)}

Kinds == {"final", "block", "tool"}

\* Rejection reasons; they are strings, for which String(err) is err itself.
Errs == {<<"x">>}

NoRejection == <<>>

\* ------------------------------------------------------------------- state
\* The streaming path right after dispatchInboundMessage was called.
StreamInit ==
    /\ wroteRole = FALSE
    /\ closed = FALSE
    /\ agentRunStarted = FALSE
    /\ finalReplyParts = <<>>
    /\ aborted = FALSE
    /\ subscribed = TRUE
    /\ unsubCalls = 0
    /\ out = <<>>
    /\ endCalls = 0
    /\ pc = "dispatching"
    /\ rejection = NoRejection
    /\ reqClosed = FALSE
    /\ evt = NoEvent
    /\ nEvents = 0
    /\ nDelivers = 0

\* ---------------------------------------------------------------- handlers
\* Mutant of EventContent: the full-text snapshot is preferred to the delta.
EventContentTextFirst(data) ==
    IF data.text.str THEN data.text.val
    ELSE IF data.delta.str THEN data.delta.val
    ELSE <<>>

\* const content = typeof delta === "string" ? delta
\*               : typeof text === "string" ? text : "";
EventContent(data) ==
    IF data.delta.str THEN data.delta.val
    ELSE IF data.text.str THEN data.text.val
    ELSE <<>>

\* Mutant of WithRole: the `if (!wroteRole)` test is missing.
WithRoleAlways(o) == WriteSse(o, RoleChunk)

\* The role-announcement write guarded by `if (!wroteRole)`.
WithRole(o) == IF ~wroteRole THEN WriteSse(o, RoleChunk) ELSE o

\* Mutant of OnAgentEvent: the `if (closed) return` guard is missing.
OnAgentEventNoClosedCheck(e) ==
    IF e.runId # RunId THEN
        UNCHANGED <<wroteRole, closed, subscribed, unsubCalls, out, endCalls>>
    ELSE IF e.stream = "assistant" THEN
        LET content == EventContent(e.data) IN
        IF content = <<>> THEN
            UNCHANGED <<wroteRole, closed, subscribed, unsubCalls, out, endCalls>>
        ELSE
            /\ wroteRole' = TRUE
            /\ out' = WriteSse(WithRole(out), ContentChunk(content))
            /\ UNCHANGED <<closed, subscribed, unsubCalls, endCalls>>
    ELSE IF e.stream = "lifecycle" /\ e.data.phase \in {"end", "error"} THEN
        /\ out' = WriteDone(WriteSse(out, FinishChunk))
        /\ closed' = TRUE
        /\ subscribed' = FALSE
        /\ unsubCalls' = unsubCalls + 1
        /\ endCalls' = endCalls + 1
        /\ UNCHANGED wroteRole
    ELSE
        UNCHANGED <<wroteRole, closed, subscribed, unsubCalls, out, endCalls>>

\* Mutant of OnAgentEvent: only the phase "end" closes the stream.
OnAgentEventEndOnly(e) ==
    IF e.runId # RunId THEN
        UNCHANGED <<wroteRole, closed, subscribed, unsubCalls, out, endCalls>>
    ELSE IF closed THEN
        UNCHANGED <<wroteRole, closed, subscribed, unsubCalls, out, endCalls>>
    ELSE IF e.stream = "assistant" THEN
        LET content == EventContent(e.data) IN
        IF content = <<>> THEN
            UNCHANGED <<wroteRole, closed, subscribed, unsubCalls, out, endCalls>>
        ELSE
            /\ wroteRole' = TRUE
            /\ out' = WriteSse(WithRole(out), ContentChunk(content))
            /\ UNCHANGED <<closed, subscribed, unsubCalls, endCalls>>
    ELSE IF e.stream = "lifecycle" /\ e.data.phase = "end" THEN
        /\ out' = WriteDone(WriteSse(out, FinishChunk))
        /\ closed' = TRUE
        /\ subscribed' = FALSE
        /\ unsubCalls' = unsubCalls + 1
        /\ endCalls' = endCalls + 1
        /\ UNCHANGED wroteRole
    ELSE
        UNCHANGED <<wroteRole, closed, subscribed, unsubCalls, out, endCalls>>

\* The callback given to onAgentEvent, run on event e.
OnAgentEvent(e) ==
    IF e.runId # RunId THEN
        UNCHANGED <<wroteRole, closed, subscribed, unsubCalls, out, endCalls>>
    ELSE IF closed THEN
        UNCHANGED <<wroteRole, closed, subscribed, unsubCalls, out, endCalls>>
    ELSE IF e.stream = "assistant" THEN
        LET content == EventContent(e.data) IN
        IF content = <<>> THEN
            UNCHANGED <<wroteRole, closed, subscribed, unsubCalls, out, endCalls>>
        ELSE
            /\ wroteRole' = TRUE
            /\ out' = WriteSse(WithRole(out), ContentChunk(content))
            /\ UNCHANGED <<closed, subscribed, unsubCalls, endCalls>>
    ELSE IF e.stream = "lifecycle" /\ e.data.phase \in {"end", "error"} THEN
        /\ out' = WriteDone(WriteSse(out, FinishChunk))
        /\ closed' = TRUE
        /\ subscribed' = FALSE
        /\ unsubCalls' = unsubCalls + 1
        /\ endCalls' = endCalls + 1
        /\ UNCHANGED wroteRole
    ELSE
        UNCHANGED <<wroteRole, closed, subscribed, unsubCalls, out, endCalls>>

\* The bus publishes an event and calls the handler with it.  Events may
\* still reach the handler after unsubscribe (late events).
EmitAgentEvent ==
    /\ UNCHANGED notStream
    /\ nEvents < MaxEvents
    /\ \E e \in Events :
        /\ evt' = e
        /\ OnAgentEvent(e)
    /\ nEvents' = nEvents + 1
    /\ UNCHANGED <<agentRunStarted, finalReplyParts, aborted, pc, rejection,
                   reqClosed, nDelivers>>

\* Mutant of ReqClose: abortController.abort() is missing.
ReqCloseNoAbort ==
    /\ UNCHANGED notStream
    /\ ~reqClosed
    /\ reqClosed' = TRUE
    /\ closed' = TRUE
    /\ subscribed' = FALSE
    /\ unsubCalls' = unsubCalls + 1
    /\ UNCHANGED <<wroteRole, agentRunStarted, finalReplyParts, aborted, out,
                   endCalls, pc, rejection, evt, nEvents, nDelivers>>

\* req.on("close", ...)
ReqClose ==
    /\ UNCHANGED notStream
    /\ ~reqClosed
    /\ reqClosed' = TRUE
    /\ closed' = TRUE
    /\ subscribed' = FALSE
    /\ unsubCalls' = unsubCalls + 1
    /\ aborted' = TRUE
    /\ UNCHANGED <<wroteRole, agentRunStarted, finalReplyParts, out, endCalls,
                   pc, rejection, evt, nEvents, nDelivers>>

\* replyOptions.onAgentRunStart
OnAgentRunStart ==
    /\ UNCHANGED notStream
    /\ pc = "dispatching"
    /\ ~agentRunStarted
    /\ agentRunStarted' = TRUE
    /\ UNCHANGED <<wroteRole, closed, finalReplyParts, aborted, subscribed,
                   unsubCalls, out, endCalls, pc, rejection, reqClosed, evt,
                   nEvents, nDelivers>>

\* Mutant of DeliverParts: the `if (info.kind !== "final") return` is missing.
DeliverPartsNoKindCheck(parts, payload, kind) ==
    LET text == IF payload.str THEN Trim(payload.val) ELSE <<>> IN
    IF text # <<>> THEN Append(parts, text) ELSE parts

\* The parts after deliver(payload, info) of the dispatcher, which is the same
\* callback on the streaming and on the non-streaming path.
DeliverParts(parts, payload, kind) ==
    IF kind # "final" THEN parts
    ELSE LET text == IF payload.str THEN Trim(payload.val) ELSE <<>> IN
         IF text # <<>> THEN Append(parts, text) ELSE parts

Deliver ==
    /\ UNCHANGED notStream
    /\ pc \in {"dispatching", "waitIdle"}
    /\ nDelivers < MaxDelivers
    /\ \E payload \in Payloads, kind \in Kinds :
        finalReplyParts' = DeliverParts(finalReplyParts, payload, kind)
    /\ nDelivers' = nDelivers + 1
    /\ UNCHANGED <<wroteRole, closed, agentRunStarted, aborted, subscribed,
                   unsubCalls, out, endCalls, pc, rejection, reqClosed, evt,
                   nEvents>>

\* dispatchInboundMessage resolves: .then starts and awaits waitForIdle().
DispatchResolves ==
    /\ UNCHANGED notStream
    /\ pc = "dispatching"
    /\ pc' = "waitIdle"
    /\ UNCHANGED <<wroteRole, closed, agentRunStarted, finalReplyParts, aborted,
                   subscribed, unsubCalls, out, endCalls, rejection, reqClosed,
                   evt, nEvents, nDelivers>>

\* dispatchInboundMessage rejects, or waitForIdle() rejects inside .then.
DispatchRejects ==
    /\ UNCHANGED notStream
    /\ pc \in {"dispatching", "waitIdle"}
    /\ pc' = "rejected"
    /\ \E err \in Errs : rejection' = err
    /\ UNCHANGED <<wroteRole, closed, agentRunStarted, finalReplyParts, aborted,
                   subscribed, unsubCalls, out, endCalls, reqClosed, evt,
                   nEvents, nDelivers>>

\* Mutant of FallbackWrites: the finish chunk after the reply is missing.
FallbackWritesNoFinish(o) ==
    IF ~agentRunStarted THEN
        LET content == Join(finalReplyParts, BlankLine) IN
        IF content # <<>> THEN WriteSse(WithRole(o), ContentChunk(content))
        ELSE o
    ELSE o

\* Mutant of FallbackWrites: the `if (!agentRunStarted)` test is missing.
FallbackWritesIgnoringRunStart(o) ==
    LET content == Join(finalReplyParts, BlankLine) IN
    IF content # <<>> THEN
        WriteSse(WriteSse(WithRole(o), ContentChunk(content)), FinishChunk)
    ELSE o

\* What the slash-command branch of .then writes (lines 430-459).
FallbackWrites(o) ==
    IF ~agentRunStarted THEN
        LET content == Join(finalReplyParts, BlankLine) IN
        IF content # <<>> THEN
            WriteSse(WriteSse(WithRole(o), ContentChunk(content)), FinishChunk)
        ELSE o
    ELSE o

\* Mutant of ThenAfterIdle: the `if (closed) return` after the await is
\* missing.
ThenAfterIdleNoClosedCheck ==
    /\ UNCHANGED notStream
    /\ pc = "waitIdle"
    /\ pc' = "settled"
    /\ wroteRole' = (wroteRole \/ FallbackWrites(out) # out)
    /\ out' = WriteDone(FallbackWrites(out))
    /\ closed' = TRUE
    /\ subscribed' = FALSE
    /\ unsubCalls' = unsubCalls + 1
    /\ endCalls' = endCalls + 1
    /\ UNCHANGED <<agentRunStarted, finalReplyParts, aborted, rejection,
                   reqClosed, evt, nEvents, nDelivers>>

\* Mutant of ThenAfterIdle: the defensive close that ends .then is missing.
ThenAfterIdleNoDefensiveClose ==
    /\ UNCHANGED notStream
    /\ pc = "waitIdle"
    /\ pc' = "settled"
    /\ IF closed THEN UNCHANGED <<wroteRole, out>>
       ELSE /\ wroteRole' = (wroteRole \/ FallbackWrites(out) # out)
            /\ out' = FallbackWrites(out)
    /\ UNCHANGED <<closed, subscribed, unsubCalls, endCalls, agentRunStarted,
                   finalReplyParts, aborted, rejection, reqClosed, evt,
                   nEvents, nDelivers>>

\* The rest of .then once waitForIdle() has resolved.
ThenAfterIdle ==
    /\ UNCHANGED notStream
    /\ pc = "waitIdle"
    /\ pc' = "settled"
    /\ IF closed THEN
           UNCHANGED <<wroteRole, closed, subscribed, unsubCalls, out, endCalls>>
       ELSE
           /\ wroteRole' = (wroteRole \/ FallbackWrites(out) # out)
           /\ out' = WriteDone(FallbackWrites(out))
           /\ closed' = TRUE
           /\ subscribed' = FALSE
           /\ unsubCalls' = unsubCalls + 1
           /\ endCalls' = endCalls + 1
    /\ UNCHANGED <<agentRunStarted, finalReplyParts, aborted, rejection,
                   reqClosed, evt, nEvents, nDelivers>>

\* Mutant of CatchHandler: the rejection also triggers the abort controller.
CatchHandlerAborts ==
    /\ UNCHANGED notStream
    /\ pc = "rejected"
    /\ pc' = "settled"
    /\ IF closed THEN
           UNCHANGED <<closed, subscribed, unsubCalls, out, endCalls, aborted>>
       ELSE
           /\ out' = WriteDone(WriteSse(out, ErrorChunk(rejection)))
           /\ closed' = TRUE
           /\ subscribed' = FALSE
           /\ unsubCalls' = unsubCalls + 1
           /\ endCalls' = endCalls + 1
           /\ aborted' = TRUE
    /\ UNCHANGED <<wroteRole, agentRunStarted, finalReplyParts, rejection,
                   reqClosed, evt, nEvents, nDelivers>>

\* Mutant of CatchHandler: unsubscribe() is missing.
CatchHandlerNoUnsubscribe ==
    /\ UNCHANGED notStream
    /\ pc = "rejected"
    /\ pc' = "settled"
    /\ IF closed THEN
           UNCHANGED <<closed, subscribed, unsubCalls, out, endCalls>>
       ELSE
           /\ out' = WriteDone(WriteSse(out, ErrorChunk(rejection)))
           /\ closed' = TRUE
           /\ endCalls' = endCalls + 1
           /\ UNCHANGED <<subscribed, unsubCalls>>
    /\ UNCHANGED <<wroteRole, agentRunStarted, finalReplyParts, aborted,
                   rejection, reqClosed, evt, nEvents, nDelivers>>

\* The .catch handler.
CatchHandler ==
    /\ UNCHANGED notStream
    /\ pc = "rejected"
    /\ pc' = "settled"
    /\ IF closed THEN
           UNCHANGED <<closed, subscribed, unsubCalls, out, endCalls>>
       ELSE
           /\ out' = WriteDone(WriteSse(out, ErrorChunk(rejection)))
           /\ closed' = TRUE
           /\ subscribed' = FALSE
           /\ unsubCalls' = unsubCalls + 1
           /\ endCalls' = endCalls + 1
    /\ UNCHANGED <<wroteRole, agentRunStarted, finalReplyParts, aborted,
                   rejection, reqClosed, evt, nEvents, nDelivers>>

\* ------------------------------------------- two requests on the event bus
MaxBusEvents == 3   \* events published on the shared bus

StreamIds == {"A", "B"}

\* const runId = `chatcmpl_${randomUUID()}`, one per request
RunIdOf == [A |-> RunId, B |-> OtherRunId]

\* The state the streaming path of one request starts with.
InitStream(s) ==
    [runId |-> RunIdOf[s], wroteRole |-> FALSE, closed |-> FALSE,
     out |-> <<>>, unsubCalls |-> 0]

BusEvents ==
    {e \in AssistantEvents \cup LifecycleEvents : ~e.data.text.str}

\* Mutant of HandleEvent: the `if (evt.runId !== runId) return` is missing.
HandleEventNoRunIdFilter(st, e) ==
    IF st.closed THEN st
    ELSE IF e.stream = "assistant" THEN
        LET content == EventContent(e.data) IN
        IF content = <<>> THEN st
        ELSE [st EXCEPT
                !.wroteRole = TRUE,
                !.out = WriteSse(IF ~st.wroteRole THEN WriteSse(st.out, RoleChunk)
                                 ELSE st.out,
                                 ContentChunk(content))]
    ELSE IF e.stream = "lifecycle" /\ e.data.phase \in {"end", "error"} THEN
        [st EXCEPT !.out = WriteDone(WriteSse(st.out, FinishChunk)),
                   !.closed = TRUE,
                   !.unsubCalls = st.unsubCalls + 1]
    ELSE st

\* The callback given to onAgentEvent, as a function of the state of the
\* request whose closure it is.
HandleEvent(st, e) ==
    IF e.runId # st.runId THEN st
    ELSE IF st.closed THEN st
    ELSE IF e.stream = "assistant" THEN
        LET content == EventContent(e.data) IN
        IF content = <<>> THEN st
        ELSE [st EXCEPT
                !.wroteRole = TRUE,
                !.out = WriteSse(IF ~st.wroteRole THEN WriteSse(st.out, RoleChunk)
                                 ELSE st.out,
                                 ContentChunk(content))]
    ELSE IF e.stream = "lifecycle" /\ e.data.phase \in {"end", "error"} THEN
        [st EXCEPT !.out = WriteDone(WriteSse(st.out, FinishChunk)),
                   !.closed = TRUE,
                   !.unsubCalls = st.unsubCalls + 1]
    ELSE st

BusInit ==
    /\ streams = [s \in StreamIds |-> InitStream(s)]
    /\ busLog = <<>>

\* The bus publishes one event: every subscribed handler is called with it.
PublishEvent ==
    /\ Len(busLog) < MaxBusEvents
    /\ \E e \in BusEvents :
        /\ busLog' = Append(busLog, e)
        /\ streams' = [s \in StreamIds |-> HandleEvent(streams[s], e)]
    /\ UNCHANGED notBus

BusNext == PublishEvent

\* -------------------------------------------------------- buildAgentPrompt
MaxMsgs == 3        \* length of the messages array

StrUser == <<"u", "s", "e", "r">>
StrAssistant == <<"a", "s", "s", "i", "s", "t", "a", "n", "t">>
StrTool == <<"t", "o", "o", "l">>
StrFunction == <<"f", "u", "n", "c", "t", "i", "o", "n">>
StrSystem == <<"s", "y", "s", "t", "e", "m">>
StrDeveloper == <<"d", "e", "v", "e", "l", "o", "p", "e", "r">>
StrObserver == <<"o", "b", "s", "e", "r", "v", "e", "r">>

SenderAssistant == <<"A", "s", "s", "i", "s", "t", "a", "n", "t">>
SenderUser == <<"U", "s", "e", "r">>
SenderTool == <<"T", "o", "o", "l">>

\* The shapes of msg.content: a string, an array of parts, anything else.
TextContent(str) == [kind |-> "string", str |-> str, parts |-> <<>>]
PartsContent(parts) == [kind |-> "array", str |-> <<>>, parts |-> parts]
OtherContent == [kind |-> "other", str |-> <<>>, parts |-> <<>>]

Part(type, text, inputText) ==
    [obj |-> TRUE, type |-> type, text |-> text, input_text |-> inputText]
NonObjectPart ==
    [obj |-> FALSE, type |-> "none", text |-> JUndefined,
     input_text |-> JUndefined]

Msg(role, content, name) ==
    [obj |-> TRUE, role |-> role, content |-> content, name |-> name]
NonObjectMsg ==
    [obj |-> FALSE, role |-> JUndefined, content |-> OtherContent,
     name |-> JUndefined]

\* The text one element of a content array stands for (the .map callback).
PartText(part) ==
    IF ~part.obj THEN <<>>
    ELSE IF part.type = "text" /\ part.text.str THEN part.text.val
    ELSE IF part.type = "input_text" /\ part.text.str THEN part.text.val
    ELSE IF part.input_text.str THEN part.input_text.val
    ELSE <<>>

RECURSIVE PartTexts(_)
\* content.map(...).filter(Boolean)
PartTexts(parts) ==
    IF parts = <<>> THEN <<>>
    ELSE LET t == PartText(Head(parts)) IN
         IF t # <<>> THEN <<t>> \o PartTexts(Tail(parts))
         ELSE PartTexts(Tail(parts))

ExtractTextContent(content) ==
    IF content.kind = "string" THEN content.str
    ELSE IF content.kind = "array" THEN Join(PartTexts(content.parts), <<"\n">>)
    ELSE <<>>

AsMessages(val) == IF val.isArray THEN val.items ELSE <<>>

\* const role = typeof msg.role === "string" ? msg.role.trim() : "";
MsgRole(msg) == IF msg.role.str THEN Trim(msg.role.val) ELSE <<>>

\* const content = extractTextContent(msg.content).trim();
MsgContent(msg) == Trim(ExtractTextContent(msg.content))

NormalizedRole(role) == IF role = StrFunction THEN StrTool ELSE role

MsgSender(msg) ==
    LET normalizedRole == NormalizedRole(MsgRole(msg))
        name == IF msg.name.str THEN Trim(msg.name.val) ELSE <<>> IN
    IF normalizedRole = StrAssistant THEN SenderAssistant
    ELSE IF normalizedRole = StrUser THEN SenderUser
    ELSE IF name # <<>> THEN SenderTool \o <<":">> \o name
    ELSE SenderTool

RECURSIVE SystemParts(_)
\* systemParts after the loop over messages
SystemParts(messages) ==
    IF messages = <<>> THEN <<>>
    ELSE LET msg == Head(messages)
             rest == SystemParts(Tail(messages)) IN
         IF ~msg.obj THEN rest
         ELSE IF MsgRole(msg) = <<>> \/ MsgContent(msg) = <<>> THEN rest
         ELSE IF MsgRole(msg) \in {StrSystem, StrDeveloper}
              THEN <<MsgContent(msg)>> \o rest
         ELSE rest

RECURSIVE ConversationEntriesAnyRole(_)
\* Mutant of ConversationEntries: a role outside user/assistant/tool is not
\* skipped, its message becomes a turn.
ConversationEntriesAnyRole(messages) ==
    IF messages = <<>> THEN <<>>
    ELSE LET msg == Head(messages)
             rest == ConversationEntriesAnyRole(Tail(messages)) IN
         IF ~msg.obj THEN rest
         ELSE IF MsgRole(msg) = <<>> \/ MsgContent(msg) = <<>> THEN rest
         ELSE IF MsgRole(msg) \in {StrSystem, StrDeveloper} THEN rest
         ELSE << [role |-> NormalizedRole(MsgRole(msg)),
                  entry |-> [sender |-> MsgSender(msg),
                             body |-> MsgContent(msg)]] >> \o rest

RECURSIVE ConversationEntries(_)
\* conversationEntries after the loop over messages
ConversationEntries(messages) ==
    IF messages = <<>> THEN <<>>
    ELSE LET msg == Head(messages)
             rest == ConversationEntries(Tail(messages)) IN
         IF ~msg.obj THEN rest
         ELSE IF MsgRole(msg) = <<>> \/ MsgContent(msg) = <<>> THEN rest
         ELSE IF MsgRole(msg) \in {StrSystem, StrDeveloper} THEN rest
         ELSE IF NormalizedRole(MsgRole(msg)) \notin
                     {StrUser, StrAssistant, StrTool} THEN rest
         ELSE << [role |-> NormalizedRole(MsgRole(msg)),
                  entry |-> [sender |-> MsgSender(msg),
                             body |-> MsgContent(msg)]] >> \o rest

\* Mutant of CurrentIndex: the backward search for a user/tool entry is
\* missing, the last entry is always the current one.
CurrentIndexLast(entries) == Len(entries)

\* currentIndex: the last user/tool entry, else the last entry.
CurrentIndex(entries) ==
    LET hits == {i \in 1..Len(entries) :
                    entries[i].role \in {StrUser, StrTool}} IN
    IF hits # {} THEN CHOOSE i \in hits : \A j \in hits : j <= i
    ELSE Len(entries)

\* const formatEntry = (entry) => `${entry.sender}: ${entry.body}`;
FormatEntry(entry) == entry.sender \o <<":", " ">> \o entry.body

\* conversationEntries.slice(0, currentIndex).map((entry) => entry.entry)
HistoryEntries(entries) ==
    [i \in 1..(CurrentIndex(entries) - 1) |-> entries[i].entry]

\* buildHistoryContextFromEntries: the context text made of the formatted
\* entries before the last one, followed by the current message.
BuildHistoryContextFromEntries(entries, currentMessage) ==
    Join([i \in 1..(Len(entries) - 1) |-> FormatEntry(entries[i])]
            \o <<currentMessage>>,
         <<"\n">>)

PromptMessage(entries) ==
    IF Len(entries) > 0 THEN
        LET currentEntry == entries[CurrentIndex(entries)].entry
            historyEntries == HistoryEntries(entries) IN
        IF Len(historyEntries) = 0 THEN currentEntry.body
        ELSE BuildHistoryContextFromEntries(
                 historyEntries \o <<currentEntry>>, FormatEntry(currentEntry))
    ELSE <<>>

\* Mutant of BuildAgentPrompt: system parts are joined into the message too.
BuildAgentPromptSystemInMessage(messagesUnknown) ==
    LET messages == AsMessages(messagesUnknown)
        systemParts == SystemParts(messages) IN
    [message |-> Join(systemParts \o
                      <<PromptMessage(ConversationEntries(messages))>>,
                      BlankLine),
     extraSystemPrompt |->
        IF Len(systemParts) > 0 THEN JStr(Join(systemParts, BlankLine))
        ELSE JUndefined]

BuildAgentPrompt(messagesUnknown) ==
    LET messages == AsMessages(messagesUnknown)
        systemParts == SystemParts(messages) IN
    [message |-> PromptMessage(ConversationEntries(messages)),
     extraSystemPrompt |->
        IF Len(systemParts) > 0 THEN JStr(Join(systemParts, BlankLine))
        ELSE JUndefined]

\* Inputs: the elements an inbound messages array is drawn from.
MsgPool ==
    { Msg(JStr(StrUser), TextContent(<<"A">>), JUndefined),
      Msg(JStr(StrAssistant), TextContent(<<"B">>), JUndefined),
      Msg(JStr(StrUser), TextContent(<<"C">>), JUndefined),
      Msg(JStr(StrTool), TextContent(<<"D">>), JStr(<<"f">>)),
      Msg(JStr(StrFunction), TextContent(<<"E">>), JUndefined),
      Msg(JStr(StrSystem), TextContent(<<"S">>), JUndefined),
      Msg(JStr(StrDeveloper), TextContent(<<" ", "V", "\n">>), JUndefined),
      Msg(JStr(StrSystem), TextContent(<<" ">>), JUndefined),
      Msg(JStr(StrObserver), TextContent(<<"O">>), JUndefined),
      Msg(JStr(<<" ">> \o StrUser \o <<" ">>),
          PartsContent(<< Part("text", JStr(<<"P">>), JUndefined),
                          NonObjectPart,
                          Part("image_url", JStr(<<"I">>), JUndefined),
                          Part("none", JUndefined, JStr(<<"Q">>)) >>),
          JUndefined),
      Msg(JStr(StrUser), TextContent(<<>>), JUndefined),
      Msg(JStr(StrUser), TextContent(<<" ", "\n">>), JUndefined),
      Msg(JUndefined, TextContent(<<"X">>), JUndefined),
      Msg(JStr(StrUser), OtherContent, JUndefined),
      NonObjectMsg }

RECURSIVE SeqsUpTo(_, _)
\* The sequences over S of length at most n.
SeqsUpTo(S, n) ==
    IF n = 0 THEN {<<>>}
    ELSE LET shorter == SeqsUpTo(S, n - 1) IN
         shorter \cup {Append(q, x) : q \in shorter, x \in S}

NotAnArray == [isArray |-> FALSE, items |-> <<>>]

MessagesInputs ==
    {[isArray |-> TRUE, items |-> q] : q \in SeqsUpTo(MsgPool, MaxMsgs)}
        \cup {NotAnArray}

NoPrompt ==
    [done |-> FALSE, message |-> <<>>, extraSystemPrompt |-> JUndefined]

PromptInit ==
    /\ messagesIn \in MessagesInputs
    /\ promptOut = NoPrompt

\* buildAgentPrompt is called on the input.
CallBuildAgentPrompt ==
    /\ ~promptOut.done
    /\ promptOut' =
          [done |-> TRUE,
           message |-> BuildAgentPrompt(messagesIn).message,
           extraSystemPrompt |-> BuildAgentPrompt(messagesIn).extraSystemPrompt]
    /\ UNCHANGED <<messagesIn, notPrompt>>

PromptNext == CallBuildAgentPrompt

\* ------------------------------- handleOpenAiHttpRequest up to the dispatch
\* and its non-streaming path
\* "No response from OpenClaw."
NoResponseText ==
    <<"N", "o", " ", "r", "e", "s", "p", "o", "n", "s", "e", " ",
      "f", "r", "o", "m", " ", "O", "p", "e", "n", "C", "l", "a",
      "w", ".">>

\* The grave accent, which a string of this notation cannot hold.
GraveAccent == "GRAVE ACCENT"

\* The text "Missing user message in 'messages'.", messages standing between
\* grave accents.
MissingUserMessageText ==
    <<"M", "i", "s", "s", "i", "n", "g", " ", "u", "s", "e", "r",
      " ", "m", "e", "s", "s", "a", "g", "e", " ", "i", "n", " ",
      GraveAccent, "m", "e", "s", "s", "a", "g", "e", "s", GraveAccent,
      ".">>

ZeroUsage ==
    [prompt_tokens |-> 0, completion_tokens |-> 0, total_tokens |-> 0]

NoUsage ==
    [prompt_tokens |-> -1, completion_tokens |-> -1, total_tokens |-> -1]

\* sendJson(res, status, {error: {message, type}})
ErrorResponse(status, type, message) ==
    [status |-> status, object |-> "error", content |-> <<>>,
     finish_reason |-> "absent", usage |-> NoUsage,
     errorType |-> type, errorMessage |-> message]

\* sendJson(res, 200, {object: "chat.completion", choices: [...], usage})
CompletionResponse(content) ==
    [status |-> 200, object |-> "chat.completion", content |-> content,
     finish_reason |-> "stop", usage |-> ZeroUsage,
     errorType |-> "none", errorMessage |-> <<>>]

\* The responses of sendMethodNotAllowed, sendUnauthorized and of the body
\* reader on an unreadable body.
MethodNotAllowedResponse == ErrorResponse(405, "method_not_allowed", <<>>)
UnauthorizedResponse == ErrorResponse(401, "unauthorized", <<>>)
BadBodyResponse == ErrorResponse(400, "invalid_request_error", <<>>)

UserMsg(body) == Msg(JStr(StrUser), TextContent(body), JUndefined)
AssistantMsg(body) == Msg(JStr(StrAssistant), TextContent(body), JUndefined)
SystemMsg(body) == Msg(JStr(StrSystem), TextContent(body), JUndefined)

ArrayOf(items) == [isArray |-> TRUE, items |-> items]

\* payload.messages values whose normalized message is meant to be empty
EmptyMessagesInputs ==
    { NotAnArray,
      ArrayOf(<<>>),
      ArrayOf(<<UserMsg(<<>>)>>),
      ArrayOf(<<UserMsg(<<" ", "\n">>)>>),
      ArrayOf(<<SystemMsg(<<"S">>)>>) }

HandlerMessagesInputs ==
    EmptyMessagesInputs \cup
    { ArrayOf(<<UserMsg(<<"A">>)>>),
      ArrayOf(<<SystemMsg(<<"S">>), UserMsg(<<"C">>)>>),
      ArrayOf(<<UserMsg(<<"A">>), AssistantMsg(<<"B">>), UserMsg(<<"C">>)>>) }

Requests ==
    [pathOk : BOOLEAN, method : {"POST", "GET"}, authOk : BOOLEAN,
     bodyOk : BOOLEAN, stream : BOOLEAN, messages : HandlerMessagesInputs]

NoResult == [message |-> <<>>, extraSystemPrompt |-> JUndefined]

HandlerInit ==
    /\ request \in Requests
    /\ hpc = "route"
    /\ prompt = NoResult
    /\ responses = <<>>
    /\ sseHeaders = 0
    /\ subscriptions = 0
    /\ dispatchCalls = 0
    /\ nsParts = <<>>
    /\ deliveries = <<>>
    /\ returned = "pending"

\* Mutant of HCheckRoute: the `if (req.method !== "POST")` answer is missing.
HCheckRouteAnyMethod ==
    /\ hpc = "route"
    /\ IF ~request.pathOk THEN
           /\ hpc' = "returned" /\ returned' = "false"
           /\ UNCHANGED responses
       ELSE
           /\ hpc' = "auth"
           /\ UNCHANGED <<responses, returned>>
    /\ UNCHANGED <<request, prompt, sseHeaders, subscriptions, dispatchCalls,
                   nsParts, deliveries, notHandler>>

\* Lines 182-190: the path and the method.
HCheckRoute ==
    /\ hpc = "route"
    /\ IF ~request.pathOk THEN
           /\ hpc' = "returned" /\ returned' = "false"
           /\ UNCHANGED responses
       ELSE IF request.method # "POST" THEN
           /\ responses' = Append(responses, MethodNotAllowedResponse)
           /\ hpc' = "returned" /\ returned' = "true"
       ELSE
           /\ hpc' = "auth"
           /\ UNCHANGED <<responses, returned>>
    /\ UNCHANGED <<request, prompt, sseHeaders, subscriptions, dispatchCalls,
                   nsParts, deliveries, notHandler>>

\* Lines 192-202: await authorizeGatewayConnect.
HAuthorize ==
    /\ hpc = "auth"
    /\ IF ~request.authOk THEN
           /\ responses' = Append(responses, UnauthorizedResponse)
           /\ hpc' = "returned" /\ returned' = "true"
       ELSE
           /\ hpc' = "body"
           /\ UNCHANGED <<responses, returned>>
    /\ UNCHANGED <<request, prompt, sseHeaders, subscriptions, dispatchCalls,
                   nsParts, deliveries, notHandler>>

\* Lines 204-207: await readJsonBodyOrError, which answers by itself when it
\* returns undefined.
HReadBody ==
    /\ hpc = "body"
    /\ IF ~request.bodyOk THEN
           /\ responses' = Append(responses, BadBodyResponse)
           /\ hpc' = "returned" /\ returned' = "true"
       ELSE
           /\ hpc' = "prompt"
           /\ UNCHANGED <<responses, returned>>
    /\ UNCHANGED <<request, prompt, sseHeaders, subscriptions, dispatchCalls,
                   nsParts, deliveries, notHandler>>

\* Mutant of HStart: the `if (!prompt.message)` rejection is missing.
HStartNoPromptCheck ==
    /\ hpc = "prompt"
    /\ prompt' = BuildAgentPrompt(request.messages)
    /\ IF ~request.stream THEN
           /\ dispatchCalls' = dispatchCalls + 1
           /\ hpc' = "nsDispatching"
           /\ UNCHANGED <<responses, sseHeaders, subscriptions, returned>>
       ELSE
           /\ sseHeaders' = sseHeaders + 1
           /\ subscriptions' = subscriptions + 1
           /\ dispatchCalls' = dispatchCalls + 1
           /\ hpc' = "streaming" /\ returned' = "true"
           /\ UNCHANGED responses
    /\ UNCHANGED <<request, nsParts, deliveries, notHandler>>

\* Lines 209-282 and 307-423, 492: the prompt is built and checked, then
\* dispatchInboundMessage is called: awaited on the non-streaming path; after
\* setSseHeaders and onAgentEvent, and not awaited, on the streaming path.
HStart ==
    /\ hpc = "prompt"
    /\ prompt' = BuildAgentPrompt(request.messages)
    /\ IF prompt'.message = <<>> THEN
           /\ responses' =
                 Append(responses,
                        ErrorResponse(400, "invalid_request_error",
                                      MissingUserMessageText))
           /\ hpc' = "returned" /\ returned' = "true"
           /\ UNCHANGED <<sseHeaders, subscriptions, dispatchCalls>>
       ELSE IF ~request.stream THEN
           /\ dispatchCalls' = dispatchCalls + 1
           /\ hpc' = "nsDispatching"
           /\ UNCHANGED <<responses, sseHeaders, subscriptions, returned>>
       ELSE
           /\ sseHeaders' = sseHeaders + 1
           /\ subscriptions' = subscriptions + 1
           /\ dispatchCalls' = dispatchCalls + 1
           /\ hpc' = "streaming" /\ returned' = "true"
           /\ UNCHANGED responses
    /\ UNCHANGED <<request, nsParts, deliveries, notHandler>>

\* The dispatcher calls the deliver callback of the non-streaming path.
HDeliver ==
    /\ hpc \in {"nsDispatching", "nsWaitIdle"}
    /\ Len(deliveries) < MaxDelivers
    /\ \E payload \in Payloads, kind \in Kinds :
        /\ nsParts' = DeliverParts(nsParts, payload, kind)
        /\ deliveries' = Append(deliveries, [payload |-> payload, kind |-> kind])
    /\ UNCHANGED <<request, hpc, prompt, responses, sseHeaders, subscriptions,
                   dispatchCalls, returned, notHandler>>

\* await dispatchInboundMessage(...) resolves; waitForIdle() is awaited next.
HDispatchResolves ==
    /\ hpc = "nsDispatching"
    /\ hpc' = "nsWaitIdle"
    /\ UNCHANGED <<request, prompt, responses, sseHeaders, subscriptions,
                   dispatchCalls, nsParts, deliveries, returned, notHandler>>

\* Mutant of HDispatchRejects: a first failure calls the dispatch again.
HDispatchRejectsRetry ==
    /\ hpc \in {"nsDispatching", "nsWaitIdle"}
    /\ IF dispatchCalls = 1 THEN
           /\ dispatchCalls' = dispatchCalls + 1
           /\ hpc' = "nsDispatching"
           /\ UNCHANGED <<responses, returned>>
       ELSE
           /\ \E err \in Errs :
               responses' = Append(responses, ErrorResponse(500, "api_error", err))
           /\ hpc' = "returned" /\ returned' = "true"
           /\ UNCHANGED dispatchCalls
    /\ UNCHANGED <<request, prompt, sseHeaders, subscriptions, nsParts,
                   deliveries, notHandler>>

\* Mutant of HDispatchRejects: the rejection is not caught, the handler's
\* promise rejects and nothing is answered.
HDispatchRejectsThrows ==
    /\ hpc \in {"nsDispatching", "nsWaitIdle"}
    /\ hpc' = "returned" /\ returned' = "threw"
    /\ UNCHANGED <<request, prompt, responses, sseHeaders, subscriptions,
                   dispatchCalls, nsParts, deliveries, notHandler>>

\* Lines 299-304: dispatchInboundMessage or waitForIdle() rejects; the catch
\* block answers 500.
HDispatchRejects ==
    /\ hpc \in {"nsDispatching", "nsWaitIdle"}
    /\ \E err \in Errs :
        responses' = Append(responses, ErrorResponse(500, "api_error", err))
    /\ hpc' = "returned" /\ returned' = "true"
    /\ UNCHANGED <<request, prompt, sseHeaders, subscriptions, dispatchCalls,
                   nsParts, deliveries, notHandler>>

\* Mutant of CompletionContent: the placeholder for an empty reply is missing.
CompletionContentNoPlaceholder(parts) == Join(parts, BlankLine)

\* finalReplyParts.join("\n\n") || "No response from OpenClaw."
CompletionContent(parts) ==
    IF Join(parts, BlankLine) # <<>> THEN Join(parts, BlankLine)
    ELSE NoResponseText

\* Lines 282-298: waitForIdle() resolves and the completion is sent.
HWaitForIdleResolves ==
    /\ hpc = "nsWaitIdle"
    /\ responses' = Append(responses, CompletionResponse(CompletionContent(nsParts)))
    /\ hpc' = "returned" /\ returned' = "true"
    /\ UNCHANGED <<request, prompt, sseHeaders, subscriptions, dispatchCalls,
                   nsParts, deliveries, notHandler>>

\* Lines 424-490: the dispatch promise of the streaming path settles, resolved
\* or rejected; neither .then nor .catch calls dispatchInboundMessage, and
\* what they write to the stream is the subject of Spec.
HStreamSettles ==
    /\ hpc = "streaming"
    /\ \E outcome \in {"streamResolved", "streamRejected"} : hpc' = outcome
    /\ UNCHANGED <<request, prompt, responses, sseHeaders, subscriptions,
                   dispatchCalls, nsParts, deliveries, returned, notHandler>>

HNext ==
    \/ HCheckRoute
    \/ HAuthorize
    \/ HReadBody
    \/ HStart
    \/ HDeliver
    \/ HDispatchResolves
    \/ HDispatchRejects
    \/ HWaitForIdleResolves
    \/ HStreamSettles

\* ---------------------------------------------- syncExternalCliCredentials
MaxTime == 3        \* the latest expiry a credential may hold

\* The clock, in a unit of which EXTERNAL_CLI_NEAR_EXPIRY_MS is one.
StartTime == 1
NearExpiryMs == 1

QwenCliProfileId == "qwen-portal:qwen-cli"
MiniMaxCliProfileId == "minimax-portal:minimax-cli"
AnthropicDefaultId == "anthropic:default"
AnthropicClaudeCliId == "anthropic:claude-cli"

ProfileIds ==
    {QwenCliProfileId, MiniMaxCliProfileId, AnthropicDefaultId,
     AnthropicClaudeCliId}

\* readQwenCliCredentialsCached, readMiniMaxCliCredentialsCached and
\* readClaudeCliCredentialsCached
Readers == {"qwen", "minimax", "claude"}

\* cred.expires: a number or not
NoExpiry == [num |-> FALSE, val |-> 0]
Expiry(t) == [num |-> TRUE, val |-> t]

\* A credential; access stands for all the fields shallowEqualOAuthCredentials
\* compares besides provider and expires (access, refresh, email, ...), and
\* for the key or token of the other types.
Credential(type, provider, access, expires) ==
    [present |-> TRUE, type |-> type, provider |-> provider,
     access |-> access, expires |-> expires]

\* undefined (no profile under the id) and null (nothing read)
NoCredential ==
    [present |-> FALSE, type |-> "none", provider |-> "none",
     access |-> "none", expires |-> NoExpiry]

\* Mutant of ShallowEqualOAuthCredentials: no two credentials are equal.
ShallowEqualOAuthCredentialsNever(a, b) == FALSE

ShallowEqualOAuthCredentials(a, b) ==
    IF ~a.present THEN FALSE
    ELSE IF a.type # "oauth" THEN FALSE
    ELSE a.provider = b.provider /\ a.access = b.access
            /\ a.expires = b.expires

IsExternalOAuthProvider(provider) ==
    provider \in {"qwen-portal", "minimax-portal", "anthropic"}

\* Mutant of IsExternalProfileFresh: a credential without a numeric expiry
\* is not taken as fresh.
IsExternalProfileFreshNumericOnly(cred, t) ==
    IF ~cred.present THEN FALSE
    ELSE IF cred.type # "oauth" /\ cred.type # "token" THEN FALSE
    ELSE IF ~IsExternalOAuthProvider(cred.provider) THEN FALSE
    ELSE cred.expires.num /\ cred.expires.val > t + NearExpiryMs

IsExternalProfileFresh(cred, t) ==
    IF ~cred.present THEN FALSE
    ELSE IF cred.type # "oauth" /\ cred.type # "token" THEN FALSE
    ELSE IF ~IsExternalOAuthProvider(cred.provider) THEN FALSE
    ELSE IF ~cred.expires.num THEN TRUE
    ELSE cred.expires.val > t + NearExpiryMs

\* const shouldSync
ShouldSync(existing, provider, t) ==
    \/ ~existing.present
    \/ existing.provider # provider
    \/ ~IsExternalProfileFresh(existing, t)

\* const existingOAuth = existing?.type === "oauth" ? existing : undefined
ExistingOAuth(existing) ==
    IF existing.present /\ existing.type = "oauth" THEN existing
    ELSE NoCredential

\* Mutant of ShouldUpdate: what the reader returned always replaces what is
\* stored.
ShouldUpdateAlways(existing, provider, creds, t) == TRUE

\* Mutant of ShouldUpdate: an expired stored credential is replaced only by
\* one that expires later.
ShouldUpdateNewerOnly(existing, provider, creds, t) ==
    LET existingOAuth == ExistingOAuth(existing) IN
    \/ ~existingOAuth.present
    \/ existingOAuth.provider # provider
    \/ /\ existingOAuth.expires.num /\ creds.expires.num
       /\ creds.expires.val > existingOAuth.expires.val

\* const shouldUpdate; a comparison with an expires that is no number is false
ShouldUpdate(existing, provider, creds, t) ==
    LET existingOAuth == ExistingOAuth(existing) IN
    \/ ~existingOAuth.present
    \/ existingOAuth.provider # provider
    \/ existingOAuth.expires.num /\ existingOAuth.expires.val <= t
    \/ /\ existingOAuth.expires.num /\ creds.expires.num
       /\ creds.expires.val > existingOAuth.expires.val

\* syncExternalCliCredentialsForProvider on the profiles, read being what
\* readCredentials() returns when it is called: the profiles after it, its
\* return value and whether readCredentials was called.
SyncExternalCliCredentialsForProvider(profiles, profileId, provider, read, t) ==
    LET existing == profiles[profileId]
        shouldSync == ShouldSync(existing, provider, t)
        creds == IF shouldSync THEN read ELSE NoCredential IN
    IF ~creds.present THEN
        [profiles |-> profiles, updated |-> FALSE, called |-> shouldSync]
    ELSE IF /\ ShouldUpdate(existing, provider, creds, t)
            /\ ~ShallowEqualOAuthCredentials(ExistingOAuth(existing), creds)
    THEN [profiles |-> [profiles EXCEPT ![profileId] = creds],
          updated |-> TRUE, called |-> TRUE]
    ELSE [profiles |-> profiles, updated |-> FALSE, called |-> TRUE]

\* const readClaudeCreds: only an OAuth credential is passed on
ReadClaudeCreds(cred) ==
    IF cred.present /\ cred.type = "oauth" THEN cred ELSE NoCredential

\* A provider no external CLI stands for.
OtherProvider == "openai"

\* What a profile may hold before the call: nothing, an OAuth credential of
\* the provider with any expiry or none, a token with or without an expiry,
\* an API key, an OAuth credential of another provider.
StoredCredentials(provider) ==
    {NoCredential}
        \cup {Credential("oauth", provider, "old", Expiry(t)) : t \in 0..MaxTime}
        \cup {Credential("oauth", provider, "old", NoExpiry)}
        \cup {Credential("token", provider, "old", e) :
                 e \in {NoExpiry, Expiry(0), Expiry(MaxTime)}}
        \cup {Credential("api_key", provider, "old", NoExpiry)}
        \cup {Credential("oauth", OtherProvider, "old", Expiry(MaxTime))}

\* What the reader of a provider may return: nothing, a new OAuth credential
\* with any expiry, or the credential already stored.
ReaderOutcomes(provider) ==
    {NoCredential}
        \cup {Credential("oauth", provider, "new", Expiry(t)) : t \in 0..MaxTime}
        \cup {Credential("oauth", provider, "old", Expiry(t)) :
                 t \in {0, MaxTime}}

\* readClaudeCliCredentialsCached may also return a token credential.
ClaudeReaderOutcomes ==
    ReaderOutcomes("anthropic")
        \cup {Credential("token", "anthropic", "new", Expiry(MaxTime))}

\* Mutant of IsOAuthDefault: anthropic:default is synced whatever it holds.
IsOAuthDefaultAlways(existingDefault) == TRUE

\* The test made on anthropic:default before it is synced: it exists, is of
\* the provider anthropic and of type oauth.
IsOAuthDefault(existingDefault) ==
    /\ existingDefault.present
    /\ existingDefault.provider = "anthropic"
    /\ existingDefault.type = "oauth"

\* The values a reader's return is drawn from: its outcomes when the call
\* is going to read it, nothing to choose otherwise.
Returned(outcomes, isRead) == IF isRead THEN outcomes ELSE {NoCredential}

SyncInit ==
    /\ \E q \in StoredCredentials("qwen-portal"),
          m \in StoredCredentials("minimax-portal"),
          a \in StoredCredentials("anthropic") :
          store = [p \in ProfileIds |->
                      IF p = QwenCliProfileId THEN q
                      ELSE IF p = MiniMaxCliProfileId THEN m
                      ELSE IF p = AnthropicDefaultId THEN a
                      ELSE NoCredential]
    /\ storeBefore = store
    /\ now = StartTime
    /\ readCalls = [r \in Readers |-> 0]
    /\ readResult = [r \in Readers |-> NoCredential]
    /\ mutated = FALSE
    /\ spc = "ready"

\* syncExternalCliCredentials(store), the readers returning rq, rm and rc when
\* they are called.
SyncExternalCliCredentials ==
    /\ spc = "ready"
    /\ \E rq \in Returned(ReaderOutcomes("qwen-portal"),
                          ShouldSync(store[QwenCliProfileId], "qwen-portal", now)),
          rm \in Returned(ReaderOutcomes("minimax-portal"),
                          ShouldSync(store[MiniMaxCliProfileId],
                                     "minimax-portal", now)),
          rc \in Returned(ClaudeReaderOutcomes,
                          ShouldSync(store[AnthropicDefaultId], "anthropic", now)) :
        LET qwen == SyncExternalCliCredentialsForProvider(
                        store, QwenCliProfileId, "qwen-portal", rq, now)
            minimax == SyncExternalCliCredentialsForProvider(
                           qwen.profiles, MiniMaxCliProfileId,
                           "minimax-portal", rm, now)
            existingDefault == minimax.profiles[AnthropicDefaultId]
            claude ==
                IF IsOAuthDefault(existingDefault)
                THEN SyncExternalCliCredentialsForProvider(
                         minimax.profiles, AnthropicDefaultId, "anthropic",
                         ReadClaudeCreds(rc), now)
                ELSE [profiles |-> minimax.profiles, updated |-> FALSE,
                      called |-> FALSE]
            called == [qwen |-> qwen.called, minimax |-> minimax.called,
                       claude |-> claude.called]
            returned_ == [qwen |-> rq, minimax |-> rm, claude |-> rc] IN
        /\ store' = claude.profiles
        /\ mutated' = (qwen.updated \/ minimax.updated \/ claude.updated)
        /\ readCalls' = [r \in Readers |->
                            IF called[r] THEN readCalls[r] + 1
                            ELSE readCalls[r]]
        /\ readResult' = [r \in Readers |->
                             IF called[r] THEN returned_[r]
                             ELSE readResult[r]]
    /\ spc' = "done"
    /\ UNCHANGED <<storeBefore, now, notSync>>

SyncNext == SyncExternalCliCredentials

\* Mutant of SyncExternalCliCredentialsAgain: the call writes back what the
\* readers returned without comparing it with what is stored.
SyncExternalCliCredentialsAgainNoCompare ==
    /\ spc \in {"done", "later"}
    /\ \E rq \in Returned(ReaderOutcomes("qwen-portal"),
                          ShouldSync(store[QwenCliProfileId], "qwen-portal", now)),
          rm \in Returned(ReaderOutcomes("minimax-portal"),
                          ShouldSync(store[MiniMaxCliProfileId],
                                     "minimax-portal", now)),
          rc \in Returned(ClaudeReaderOutcomes,
                          ShouldSync(store[AnthropicDefaultId], "anthropic", now)) :
        /\ store' = [store EXCEPT
                         ![QwenCliProfileId] =
                             IF rq.present THEN rq ELSE @,
                         ![MiniMaxCliProfileId] =
                             IF rm.present THEN rm ELSE @]
        /\ mutated' = (rq.present \/ rm.present)
        /\ readCalls' = [qwen |-> IF rq.present THEN 1 ELSE 0,
                         minimax |-> IF rm.present THEN 1 ELSE 0,
                         claude |-> 0]
        /\ readResult' = [qwen |-> rq, minimax |-> rm, claude |-> NoCredential]
    /\ storeBefore' = store
    /\ spc' = "done"
    /\ UNCHANGED <<now, notSync>>

\* A later call of syncExternalCliCredentials on the same store: storeBefore,
\* readCalls, readResult and mutated describe this call alone.
SyncExternalCliCredentialsAgain ==
    /\ spc \in {"done", "later"}
    /\ \E rq \in Returned(ReaderOutcomes("qwen-portal"),
                          ShouldSync(store[QwenCliProfileId], "qwen-portal", now)),
          rm \in Returned(ReaderOutcomes("minimax-portal"),
                          ShouldSync(store[MiniMaxCliProfileId],
                                     "minimax-portal", now)),
          rc \in Returned(ClaudeReaderOutcomes,
                          ShouldSync(store[AnthropicDefaultId], "anthropic", now)) :
        LET qwen == SyncExternalCliCredentialsForProvider(
                        store, QwenCliProfileId, "qwen-portal", rq, now)
            minimax == SyncExternalCliCredentialsForProvider(
                           qwen.profiles, MiniMaxCliProfileId,
                           "minimax-portal", rm, now)
            existingDefault == minimax.profiles[AnthropicDefaultId]
            claude ==
                IF IsOAuthDefault(existingDefault)
                THEN SyncExternalCliCredentialsForProvider(
                         minimax.profiles, AnthropicDefaultId, "anthropic",
                         ReadClaudeCreds(rc), now)
                ELSE [profiles |-> minimax.profiles, updated |-> FALSE,
                      called |-> FALSE]
            called == [qwen |-> qwen.called, minimax |-> minimax.called,
                       claude |-> claude.called]
            returned_ == [qwen |-> rq, minimax |-> rm, claude |-> rc] IN
        /\ store' = claude.profiles
        /\ mutated' = (qwen.updated \/ minimax.updated \/ claude.updated)
        /\ readCalls' = [r \in Readers |-> IF called[r] THEN 1 ELSE 0]
        /\ readResult' = [r \in Readers |->
                             IF called[r] THEN returned_[r] ELSE NoCredential]
    /\ storeBefore' = store
    /\ spc' = "done"
    /\ UNCHANGED <<now, notSync>>

\* Date.now() moves on between two calls.
ClockTick ==
    /\ spc \in {"done", "later"}
    /\ now < MaxTime
    /\ now' = now + 1
    /\ spc' = "later"
    /\ UNCHANGED <<store, storeBefore, readCalls, readResult, mutated, notSync>>

\* A credential that no call reads again: a token of the provider without
\* an expiry.
LongLived(provider) == Credential("token", provider, "old", NoExpiry)

\* The stores the sequences start from: those in which at least two of the
\* three profiles hold a long-lived token, the third holding anything.
SyncSeqInit ==
    /\ SyncInit
    /\ \/ /\ store[QwenCliProfileId] = LongLived("qwen-portal")
          /\ store[MiniMaxCliProfileId] = LongLived("minimax-portal")
       \/ /\ store[QwenCliProfileId] = LongLived("qwen-portal")
          /\ store[AnthropicDefaultId] = LongLived("anthropic")
       \/ /\ store[MiniMaxCliProfileId] = LongLived("minimax-portal")
          /\ store[AnthropicDefaultId] = LongLived("anthropic")

SyncSeqNext ==
    \/ SyncExternalCliCredentials
    \/ SyncExternalCliCredentialsAgain
    \/ ClockTick

\* ------------------------------------------------- runSubagentAnnounceFlow
\* The flow itself is known by its tests (subagent-announce.retry.test.ts):
\* the gateway `agent` call is a mock that fails or succeeds call by call.
MaxAnnounceAttempts == 3

\* outcome.status of the sub-agent run that is announced
AnnounceOutcomes == {"ok", "error", "timeout"}

\* What a gateway `agent` call may do: return, or throw one of two errors.
CallResults == {"ok", "network error", "gateway timeout"}

\* A gateway `agent` call: the message it carries and how it went.
AgentCall(message, result) == [message |-> message, result |-> result]

\* The number of `agent` calls that carried the announcement.
AnnounceAttempts ==
    Cardinality({i \in 1..Len(agentCalls) : agentCalls[i].message = "announce"})

AnnounceInit ==
    /\ announceParams \in [outcome : AnnounceOutcomes]
    /\ agentCalls = <<>>
    /\ apc = "announcing"
    /\ didAnnounce = "pending"

\* Mutant of AnnounceAttempt: a failed attempt is not tried again.
AnnounceAttemptNoRetry ==
    /\ apc = "announcing"
    /\ \E result \in CallResults :
        /\ agentCalls' = Append(agentCalls, AgentCall("announce", result))
        /\ IF result = "ok" THEN apc' = "returned" /\ didAnnounce' = "true"
           ELSE apc' = "fallback" /\ UNCHANGED didAnnounce
    /\ UNCHANGED <<announceParams, notAnnounce>>

\* One announce attempt: an `agent` call carrying the announcement; a
\* success ends the flow, the third failure leads to the fallback notice.
AnnounceAttempt ==
    /\ apc = "announcing"
    /\ \E result \in CallResults :
        /\ agentCalls' = Append(agentCalls, AgentCall("announce", result))
        /\ IF result = "ok" THEN apc' = "returned" /\ didAnnounce' = "true"
           ELSE IF AnnounceAttempts + 1 >= MaxAnnounceAttempts
                THEN apc' = "fallback" /\ UNCHANGED didAnnounce
           ELSE UNCHANGED <<apc, didAnnounce>>
    /\ UNCHANGED <<announceParams, notAnnounce>>

\* The fallback notice: one `agent` call telling that the results could not
\* be delivered; the flow returns whether it went through.
FallbackNotice ==
    /\ apc = "fallback"
    /\ \E result \in CallResults :
        /\ agentCalls' = Append(agentCalls, AgentCall("fallback notice", result))
        /\ didAnnounce' = IF result = "ok" THEN "true" ELSE "false"
    /\ apc' = "returned"
    /\ UNCHANGED <<announceParams, notAnnounce>>

AnnounceNext == AnnounceAttempt \/ FallbackNotice

\* ------------------------------------------------------ resolveWorkspaceId
\* ctx.messageChannel and ctx.agentAccountId; Absent is the undefined or
\* empty value that `!channel || !accountId` takes as missing.
Absent == "absent"

TenantChannels == {"discord", "telegram"}

TenantAccounts == {"acct-1"}

\* The workspace ids of the rows, and the defaultWorkspace of the plugin.
Workspaces == {"ws-1", "ws-2"}

DefaultWorkspace == "ws-default"

\* No row for a pair in tenant_channel_mappings.
NoRow == "no row"

TenantPairs == TenantChannels \X TenantAccounts

\* const cacheKey, the channel, a colon and the account id
CacheKey(channel, accountId) == <<channel, ":", accountId>>

CacheKeys == {CacheKey(pr[1], pr[2]) : pr \in TenantPairs}

\* cache.get(cacheKey) === undefined
NotCached == "undefined"

\* The per-call contexts: either identity may be missing.
TenantContexts ==
    [messageChannel : TenantChannels \cup {Absent},
     agentAccountId : TenantAccounts \cup {Absent}]

\* A call that has not been made.
NoTenantCall ==
    [ctx |-> [messageChannel |-> Absent, agentAccountId |-> Absent],
     queried |-> FALSE, error |-> FALSE, row |-> NoRow, result |-> Absent]

TenantInit ==
    /\ tenantRows \in [TenantPairs -> Workspaces \cup {NoRow}]
    /\ tenantCache = [k \in CacheKeys |-> NotCached]
    /\ tenantCall = NoTenantCall
    /\ tpc = "serving"

\* resolveWorkspaceId(ctx, supabase, defaultWorkspace); dbError tells whether
\* the query, when it is made, comes back with an error.
ResolveWorkspaceId(ctx, dbError) ==
    /\ tpc = "serving"
    /\ LET channel == ctx.messageChannel
           accountId == ctx.agentAccountId
           row == IF channel # Absent /\ accountId # Absent
                  THEN tenantRows[<<channel, accountId>>] ELSE NoRow IN
       IF channel = Absent \/ accountId = Absent THEN
           /\ tenantCall' = [ctx |-> ctx, queried |-> FALSE, error |-> FALSE,
                             row |-> row, result |-> DefaultWorkspace]
           /\ UNCHANGED tenantCache
       ELSE IF tenantCache[CacheKey(channel, accountId)] # NotCached THEN
           /\ tenantCall' = [ctx |-> ctx, queried |-> FALSE, error |-> FALSE,
                             row |-> row,
                             result |-> tenantCache[CacheKey(channel, accountId)]]
           /\ UNCHANGED tenantCache
       ELSE IF ~dbError /\ row # NoRow THEN
           /\ tenantCache' =
                 [tenantCache EXCEPT ![CacheKey(channel, accountId)] = row]
           /\ tenantCall' = [ctx |-> ctx, queried |-> TRUE, error |-> FALSE,
                             row |-> row, result |-> row]
       ELSE
           /\ tenantCache' =
                 [tenantCache EXCEPT
                     ![CacheKey(channel, accountId)] = DefaultWorkspace]
           /\ tenantCall' = [ctx |-> ctx, queried |-> TRUE, error |-> dbError,
                             row |-> row, result |-> DefaultWorkspace]
    /\ UNCHANGED <<tenantRows, tpc, notTenant>>

\* A row of tenant_channel_mappings is added, changed or removed by whoever
\* administers the tenants.
MappingChanges ==
    /\ tpc = "serving"
    /\ \E pr \in TenantPairs, w \in Workspaces \cup {NoRow} :
          /\ w # tenantRows[pr]
          /\ tenantRows' = [tenantRows EXCEPT ![pr] = w]
    /\ UNCHANGED <<tenantCache, tenantCall, notTenant>>
    /\ UNCHANGED tpc

TenantNext ==
    \/ \E ctx \in TenantContexts, dbError \in BOOLEAN :
          ResolveWorkspaceId(ctx, dbError)
    \/ MappingChanges

\* ------------------------------------------------- the Otto pipeline service
MaxProcs == 3       \* child processes spawned during one life of the service

\* Date.now() when the service is built, in hours: 03:00 UTC of the second
\* day, which is 19:00 PST of the first.
StartClock == 27

DigestHourPst == 20

PstOffsetHours == -8

\* pstHour(), the clock being t
PstHour(t) == ((t % 24) + 24 + PstOffsetHours) % 24

\* pstDateString(), the clock being t: the day that holds t - 8 hours
PstDateString(t) == (t + PstOffsetHours) \div 24

\* let lastDigestDate: string | null = null
NoDate == -1

\* The instants at which the clock is looked at: 19:00, 20:00 and 21:00 PST
\* of two days in a row.
Instants == {StartClock + 24 * d + h : d \in {0, 1}, h \in {0, 1, 2}}

AllTimers ==
    {"initialDelay", "pollTimer", "digestTimer", "initialContactDelay",
     "contactSyncTimer"}

\* A child process as runScript has just spawned it. ok tells whether the
\* spawn went through; when it did not, the process never runs and its
\* 'error' event is still to come.
Proc(label, ok, hasTimeout, cycle) ==
    [label |-> label,
     state |-> IF ok THEN "running" ELSE "failing",
     signalled |-> FALSE,
     active |-> TRUE,
     timeout |-> hasTimeout,
     settled |-> FALSE,
     exit |-> "none",
     cycle |-> cycle,
     afterStop |-> svc = "stopped"]

\* The runGmailPoll calls whose second script is still to be spawned.
Reserved == Cardinality({c \in 1..Len(cycles) : cycles[c] = "watcher"})

\* n more processes may be spawned within MaxProcs.
Room(n) == Len(procs) + Reserved + n <= MaxProcs

PipelineInit ==
    /\ svc = "created"
    /\ timers = {}
    /\ isPolling = FALSE
    /\ isContactSyncing = FALSE
    /\ lastDigestDate = NoDate
    /\ procs = <<>>
    /\ cycles = <<>>
    /\ clock = StartClock

\* start(ctx)
PipelineStart ==
    /\ svc = "created"
    /\ svc' = "started"
    /\ timers' = AllTimers
    /\ UNCHANGED <<isPolling, isContactSyncing, lastDigestDate, procs, cycles,
                   clock, notPipeline>>

\* stop(ctx): the five timers are cleared, every process of activeProcs is
\* sent SIGTERM, activeProcs is cleared.
PipelineStop ==
    /\ svc = "started"
    /\ svc' = "stopped"
    /\ timers' = {}
    /\ procs' = [i \in 1..Len(procs) |->
                    IF procs[i].active
                    THEN [procs[i] EXCEPT
                             !.signalled = (@ \/ procs[i].state = "running"),
                             !.active = FALSE]
                    ELSE procs[i]]
    /\ UNCHANGED <<isPolling, isContactSyncing, lastDigestDate, cycles, clock,
                   notPipeline>>

\* Mutant of RunPollIfIdle: the `if (isPolling) return` is missing.
RunPollAlways ==
    /\ Len(procs) + 2 <= MaxProcs
    /\ \E ok \in BOOLEAN :
          procs' = Append(procs,
                          Proc("gmail-watcher", ok, FALSE, Len(cycles) + 1))
    /\ isPolling' = TRUE
    /\ cycles' = Append(cycles, "watcher")

\* The body of the two poll timers: nothing when a poll is running,
\* otherwise isPolling = true and runGmailPoll, which spawns gmail-watcher
\* (and needs room for its two scripts within MaxProcs).
RunPollIfIdle ==
    IF isPolling THEN UNCHANGED <<isPolling, procs, cycles>>
    ELSE /\ Len(procs) + 2 <= MaxProcs
         /\ \E ok \in BOOLEAN :
               procs' = Append(procs,
                               Proc("gmail-watcher", ok, FALSE, Len(cycles) + 1))
         /\ isPolling' = TRUE
         /\ cycles' = Append(cycles, "watcher")

\* The initial-delay timer of the poll fires (once).
InitialDelayTick ==
    /\ "initialDelay" \in timers
    /\ timers' = timers \ {"initialDelay"}
    /\ RunPollIfIdle
    /\ UNCHANGED <<svc, isContactSyncing, lastDigestDate, clock, notPipeline>>

\* The 15-minute interval fires.
PollTick ==
    /\ "pollTimer" \in timers
    /\ RunPollIfIdle
    /\ UNCHANGED <<svc, timers, isContactSyncing, lastDigestDate, clock,
                   notPipeline>>

\* Mutant of DigestTick: lastDigestDate is not looked at.
DigestTickNoDateCheck ==
    /\ "digestTimer" \in timers
    /\ IF PstHour(clock) # DigestHourPst
       THEN UNCHANGED <<lastDigestDate, procs>>
       ELSE /\ Room(1)
            /\ lastDigestDate' = PstDateString(clock)
            /\ \E ok \in BOOLEAN :
                  procs' = Append(procs, Proc("send-digest", ok, FALSE, 0))
    /\ UNCHANGED <<svc, timers, isPolling, isContactSyncing, cycles, clock,
                   notPipeline>>

\* The one-minute interval of the digest fires.
DigestTick ==
    /\ "digestTimer" \in timers
    /\ IF PstHour(clock) # DigestHourPst
       THEN UNCHANGED <<lastDigestDate, procs>>
       ELSE IF lastDigestDate = PstDateString(clock)
       THEN UNCHANGED <<lastDigestDate, procs>>
       ELSE /\ Room(1)
            /\ lastDigestDate' = PstDateString(clock)
            /\ \E ok \in BOOLEAN :
                  procs' = Append(procs, Proc("send-digest", ok, FALSE, 0))
    /\ UNCHANGED <<svc, timers, isPolling, isContactSyncing, cycles, clock,
                   notPipeline>>

\* The body of the two contact-sync timers: nothing when a sync is running,
\* otherwise isContactSyncing = true and contact-sync is spawned with its
\* timeout.
RunContactSyncIfIdle ==
    IF isContactSyncing THEN UNCHANGED <<isContactSyncing, procs>>
    ELSE /\ Room(1)
         /\ \E ok \in BOOLEAN :
               procs' = Append(procs, Proc("contact-sync", ok, TRUE, 0))
         /\ isContactSyncing' = TRUE

\* The initial-delay timer of the contact sync fires (once).
InitialContactTick ==
    /\ "initialContactDelay" \in timers
    /\ timers' = timers \ {"initialContactDelay"}
    /\ RunContactSyncIfIdle
    /\ UNCHANGED <<svc, isPolling, lastDigestDate, cycles, clock, notPipeline>>

\* The 6-hour interval fires.
ContactSyncTick ==
    /\ "contactSyncTimer" \in timers
    /\ RunContactSyncIfIdle
    /\ UNCHANGED <<svc, timers, isPolling, lastDigestDate, cycles, clock,
                   notPipeline>>

\* Mutant of AfterScript: a non-zero exit of gmail-watcher ends the poll
\* cycle as a spawn failure does.
AfterScriptStopsOnFailure(i, q, resolved) ==
    LET label == procs[i].label
        with == [procs EXCEPT ![i] = q] IN
    IF procs[i].settled THEN
        /\ procs' = with
        /\ UNCHANGED <<isPolling, isContactSyncing, cycles>>
    ELSE IF label = "gmail-watcher" /\ resolved /\ q.exit # "nonzero" THEN
        /\ \E ok \in BOOLEAN :
              procs' = Append(with, Proc("process-notify-queue", ok, FALSE,
                                         procs[i].cycle))
        /\ cycles' = [cycles EXCEPT ![procs[i].cycle] = "notify"]
        /\ UNCHANGED <<isPolling, isContactSyncing>>
    ELSE IF label \in {"gmail-watcher", "process-notify-queue"} THEN
        /\ procs' = with
        /\ cycles' = [cycles EXCEPT ![procs[i].cycle] = "done"]
        /\ isPolling' = FALSE
        /\ UNCHANGED isContactSyncing
    ELSE IF label = "contact-sync" THEN
        /\ procs' = with
        /\ isContactSyncing' = FALSE
        /\ UNCHANGED <<isPolling, cycles>>
    ELSE
        /\ procs' = with
        /\ UNCHANGED <<isPolling, isContactSyncing, cycles>>

\* Mutant of AfterScript: isPolling is reset when the poll cycle resolves
\* (.then) and not when its script fails to spawn.
AfterScriptThenOnly(i, q, resolved) ==
    LET label == procs[i].label
        with == [procs EXCEPT ![i] = q] IN
    IF procs[i].settled THEN
        /\ procs' = with
        /\ UNCHANGED <<isPolling, isContactSyncing, cycles>>
    ELSE IF label = "gmail-watcher" /\ resolved THEN
        /\ \E ok \in BOOLEAN :
              procs' = Append(with, Proc("process-notify-queue", ok, FALSE,
                                         procs[i].cycle))
        /\ cycles' = [cycles EXCEPT ![procs[i].cycle] = "notify"]
        /\ UNCHANGED <<isPolling, isContactSyncing>>
    ELSE IF label \in {"gmail-watcher", "process-notify-queue"} THEN
        /\ procs' = with
        /\ cycles' = [cycles EXCEPT ![procs[i].cycle] = "done"]
        /\ isPolling' = (isPolling /\ ~resolved)
        /\ UNCHANGED isContactSyncing
    ELSE IF label = "contact-sync" THEN
        /\ procs' = with
        /\ isContactSyncing' = FALSE
        /\ UNCHANGED <<isPolling, cycles>>
    ELSE
        /\ procs' = with
        /\ UNCHANGED <<isPolling, isContactSyncing, cycles>>

\* What follows the settling of the promise of runScript for process i,
\* whose record becomes q: the rest of runGmailPoll and its .finally, or
\* the .catch and .finally of the contact sync. resolved tells whether the
\* promise resolved (close) or rejected (error, timeout).
AfterScript(i, q, resolved) ==
    LET label == procs[i].label
        with == [procs EXCEPT ![i] = q] IN
    IF procs[i].settled THEN
        /\ procs' = with
        /\ UNCHANGED <<isPolling, isContactSyncing, cycles>>
    ELSE IF label = "gmail-watcher" /\ resolved THEN
        /\ \E ok \in BOOLEAN :
              procs' = Append(with, Proc("process-notify-queue", ok, FALSE,
                                         procs[i].cycle))
        /\ cycles' = [cycles EXCEPT ![procs[i].cycle] = "notify"]
        /\ UNCHANGED <<isPolling, isContactSyncing>>
    ELSE IF label \in {"gmail-watcher", "process-notify-queue"} THEN
        /\ procs' = with
        /\ cycles' = [cycles EXCEPT ![procs[i].cycle] = "done"]
        /\ isPolling' = FALSE
        /\ UNCHANGED isContactSyncing
    ELSE IF label = "contact-sync" THEN
        /\ procs' = with
        /\ isContactSyncing' = FALSE
        /\ UNCHANGED <<isPolling, cycles>>
    ELSE
        /\ procs' = with
        /\ UNCHANGED <<isPolling, isContactSyncing, cycles>>

\* proc.on("error"): the spawn of process i failed.
ProcError(i) ==
    /\ i \in 1..Len(procs)
    /\ procs[i].state = "failing"
    /\ AfterScript(i, [procs[i] EXCEPT !.state = "errored", !.timeout = FALSE,
                                       !.active = FALSE, !.settled = TRUE],
                   FALSE)
    /\ UNCHANGED <<svc, timers, lastDigestDate, clock, notPipeline>>

\* proc.on("close"): process i has exited, by itself or killed.
ProcClose(i) ==
    /\ i \in 1..Len(procs)
    /\ procs[i].state = "running"
    /\ \E e \in {"zero", "nonzero"}
                   \cup (IF procs[i].signalled THEN {"signal"} ELSE {}) :
          AfterScript(i, [procs[i] EXCEPT !.state = "closed", !.exit = e,
                                          !.timeout = FALSE, !.active = FALSE,
                                          !.settled = TRUE],
                      TRUE)
    /\ UNCHANGED <<svc, timers, lastDigestDate, clock, notPipeline>>

\* The timeout of runScript fires for process i: SIGTERM, and the promise
\* is rejected while the process may still be running.
ScriptTimeout(i) ==
    /\ i \in 1..Len(procs)
    /\ procs[i].timeout
    /\ procs[i].state = "running"
    /\ AfterScript(i, [procs[i] EXCEPT !.signalled = TRUE, !.timeout = FALSE,
                                       !.settled = TRUE],
                   FALSE)
    /\ UNCHANGED <<svc, timers, lastDigestDate, clock, notPipeline>>

\* Time goes by.
ClockAdvance ==
    /\ \E t \in Instants : t > clock /\ clock' = t
    /\ UNCHANGED <<svc, timers, isPolling, isContactSyncing, lastDigestDate,
                   procs, cycles, notPipeline>>

PipelineNext ==
    \/ PipelineStart
    \/ PipelineStop
    \/ InitialDelayTick
    \/ PollTick
    \/ DigestTick
    \/ InitialContactTick
    \/ ContactSyncTick
    \/ \E i \in 1..MaxProcs : ProcError(i)
    \/ \E i \in 1..MaxProcs : ProcClose(i)
    \/ \E i \in 1..MaxProcs : ScriptTimeout(i)
    \/ ClockAdvance

\* ------------------------------------------------------------ specifications
\* The parts of the model a specification does not run stay as they start.
StreamIdle == StreamInit

BusIdle == streams = [s \in StreamIds |-> InitStream(s)] /\ busLog = <<>>

HandlerIdle ==
    /\ request = [pathOk |-> FALSE, method |-> "GET", authOk |-> FALSE,
                  bodyOk |-> FALSE, stream |-> FALSE, messages |-> NotAnArray]
    /\ hpc = "idle"
    /\ prompt = NoResult
    /\ responses = <<>>
    /\ sseHeaders = 0
    /\ subscriptions = 0
    /\ dispatchCalls = 0
    /\ nsParts = <<>>
    /\ deliveries = <<>>
    /\ returned = "pending"

PromptIdle == messagesIn = NotAnArray /\ promptOut = NoPrompt

SyncIdle ==
    /\ store = [p \in ProfileIds |-> NoCredential]
    /\ storeBefore = store
    /\ now = StartTime
    /\ readCalls = [r \in Readers |-> 0]
    /\ readResult = [r \in Readers |-> NoCredential]
    /\ mutated = FALSE
    /\ spc = "idle"

TenantIdle ==
    /\ tenantRows = [pr \in TenantPairs |-> NoRow]
    /\ tenantCache = [k \in CacheKeys |-> NotCached]
    /\ tenantCall = NoTenantCall
    /\ tpc = "idle"

PipelineIdle ==
    /\ svc = "idle"
    /\ timers = {}
    /\ isPolling = FALSE
    /\ isContactSyncing = FALSE
    /\ lastDigestDate = NoDate
    /\ procs = <<>>
    /\ cycles = <<>>
    /\ clock = StartClock

AnnounceIdle ==
    /\ announceParams = [outcome |-> "ok"]
    /\ agentCalls = <<>>
    /\ apc = "idle"
    /\ didAnnounce = "pending"

Init ==
    StreamInit /\ BusIdle /\ HandlerIdle /\ PromptIdle /\ SyncIdle
        /\ AnnounceIdle /\ TenantIdle /\ PipelineIdle

Next ==
    \/ EmitAgentEvent
    \/ ReqClose
    \/ OnAgentRunStart
    \/ Deliver
    \/ DispatchResolves
    \/ DispatchRejects
    \/ ThenAfterIdle
    \/ CatchHandler

Spec == Init /\ [][Next]_vars

\* The same, the dispatch promise being assumed to settle, waitForIdle() to
\* settle, and the .then and .catch callbacks to run once they can.
SpecFair ==
    /\ Spec
    /\ WF_vars(DispatchResolves \/ DispatchRejects)
    /\ WF_vars(ThenAfterIdle \/ DispatchRejects)
    /\ WF_vars(CatchHandler)

\* Two streaming requests and the bus they share.
InitBus ==
    BusInit /\ StreamIdle /\ HandlerIdle /\ PromptIdle /\ SyncIdle
        /\ AnnounceIdle /\ TenantIdle /\ PipelineIdle

SpecBus == InitBus /\ [][BusNext]_vars

\* One request through handleOpenAiHttpRequest.
InitHandler ==
    HandlerInit /\ StreamIdle /\ BusIdle /\ PromptIdle /\ SyncIdle
        /\ AnnounceIdle /\ TenantIdle /\ PipelineIdle

SpecHandler == InitHandler /\ [][HNext]_vars

\* The same, the dispatch and waitForIdle() being assumed to settle.
SpecHandlerFair ==
    /\ SpecHandler
    /\ WF_vars(HDispatchResolves \/ HDispatchRejects)
    /\ WF_vars(HWaitForIdleResolves \/ HDispatchRejects)

\* buildAgentPrompt applied to one input.
InitPrompt ==
    PromptInit /\ StreamIdle /\ BusIdle /\ HandlerIdle /\ SyncIdle
        /\ AnnounceIdle /\ TenantIdle /\ PipelineIdle

SpecPrompt == InitPrompt /\ [][PromptNext]_vars

\* syncExternalCliCredentials on one store.
InitSync ==
    SyncInit /\ StreamIdle /\ BusIdle /\ HandlerIdle /\ PromptIdle
        /\ AnnounceIdle /\ TenantIdle /\ PipelineIdle

SpecSync == InitSync /\ [][SyncNext]_vars

\* Any sequence of calls of syncExternalCliCredentials on one store, the clock
\* moving on between them.
InitSyncSeq ==
    SyncSeqInit /\ StreamIdle /\ BusIdle /\ HandlerIdle /\ PromptIdle
        /\ AnnounceIdle /\ TenantIdle /\ PipelineIdle

SpecSyncSeq == InitSyncSeq /\ [][SyncSeqNext]_vars

\* runSubagentAnnounceFlow, one call.
InitAnnounce ==
    AnnounceInit /\ StreamIdle /\ BusIdle /\ HandlerIdle /\ PromptIdle
        /\ SyncIdle /\ TenantIdle /\ PipelineIdle

SpecAnnounce == InitAnnounce /\ [][AnnounceNext]_vars

\* resolveWorkspaceId called again and again while the mappings change.
InitTenant ==
    TenantInit /\ StreamIdle /\ BusIdle /\ HandlerIdle /\ PromptIdle
        /\ SyncIdle /\ AnnounceIdle /\ PipelineIdle

SpecTenant == InitTenant /\ [][TenantNext]_vars

\* One life of the Otto pipeline service.
InitPipeline ==
    PipelineInit /\ StreamIdle /\ BusIdle /\ HandlerIdle /\ PromptIdle
        /\ SyncIdle /\ AnnounceIdle /\ TenantIdle

SpecPipeline == InitPipeline /\ [][PipelineNext]_vars

\* The same, every script that was spawned being assumed to exit, and every
\* failed spawn to report its error.
SpecPipelineFair ==
    /\ SpecPipeline
    /\ \A i \in 1..MaxProcs : WF_vars(ProcClose(i) \/ ProcError(i))

\* ------------------------------------------------------ transcript helpers
DoneIndexes == {i \in 1..Len(out) : out[i].type = "done"}

NumDone == Cardinality(DoneIndexes)

IsPrefix(s, t) == Len(s) <= Len(t) /\ SubSeq(t, 1, Len(s)) = s

\* The step in which the bus hands one more event to the handler.
EventStep == nEvents' # nEvents

\* The step in which .then runs on after waitForIdle().
ThenStep == pc = "waitIdle" /\ pc' = "settled"

\* The step in which .catch runs.
CatchStep == pc = "rejected" /\ pc' = "settled"

\* out, with the role chunk appended when none has been written yet.
RoleFirst == IF wroteRole THEN out ELSE Append(out, RoleChunk)

\* ------------------------------------------------------------------ claims

\* C1 (as stated): once every terminating signal is in (the promise chain has
\* settled and the stream is closed), exactly one [DONE] sentinel has been
\* written and nothing was written after it.
C1_ExactlyOneSentinel ==
    /\ (pc = "settled" /\ closed) => NumDone = 1
    /\ \A i \in DoneIndexes : i = Len(out)

C1_SentinelInv ==
    /\ NumDone <= 1
    /\ \A i \in DoneIndexes : i = Len(out)
    /\ endCalls = NumDone
    /\ pc = "settled" => closed
    /\ (closed /\ ~reqClosed) => NumDone = 1
    /\ (closed /\ NumDone = 0) => reqClosed

\* C1 (amended): at most one [DONE] sentinel is written and no write of any
\* kind happens after it; a stream closed by a lifecycle end/error, by dispatch
\* completion or by dispatch rejection has exactly one, and a stream that the
\* client's 'close' closed first has none, now and ever after.
C1_AtMostOneSentinel ==
    /\ []C1_SentinelInv
    /\ [][(closed /\ NumDone = 0) => (out' = out)]_vars

\* C1 witness: a lifecycle end closed the stream, the dispatch then resolved
\* and .then ran, and the client closed the request: still one sentinel.
C1_Witness ==
    /\ pc = "settled" /\ reqClosed /\ rejection = NoRejection
    /\ NumDone = 1
    /\ Len(out) >= 2 /\ out[Len(out) - 1] = FinishChunk

\* C2: closed never reverts, no step taken while closed writes to the
\* response, and an event that arrives while closed changes nothing of the
\* request's state.
C2_ClosedIsFinal ==
    [][closed =>
        /\ closed'
        /\ out' = out
        /\ endCalls' = endCalls
        /\ EventStep =>
             UNCHANGED <<wroteRole, agentRunStarted, finalReplyParts, aborted,
                         subscribed, unsubCalls, pc, rejection, reqClosed>>]_vars

\* C2 witness: a content-bearing assistant event of this run was the last
\* event handed to the handler and nothing was ever written: it came after
\* closed and was dropped.
C2_Witness ==
    /\ closed /\ out = <<>>
    /\ evt.runId = RunId /\ evt.stream = "assistant"
    /\ evt.data.delta.str /\ evt.data.delta.val # <<>>

\* C3: every non-empty assistant delta of this run that arrives while the
\* stream is open appends exactly one content chunk carrying that delta (after
\* the role chunk when it is the first), and no step removes or rewrites what
\* was written: the content chunks are the deltas in arrival order.
C3_DeltaOrder ==
    [][/\ IsPrefix(out, out')
       /\ (/\ EventStep /\ ~closed
           /\ evt'.runId = RunId /\ evt'.stream = "assistant"
           /\ evt'.data.delta.str /\ evt'.data.delta.val # <<>>)
          => out' = Append(RoleFirst, ContentChunk(evt'.data.delta.val))]_vars

\* C3 witness: two deltas "a" then "b" were written in that order.
C3_Witness ==
    out = <<RoleChunk, ContentChunk(<<"a">>), ContentChunk(<<"b">>)>>

\* C4: every chunk that carries delta.content is preceded by the
\* role-announcement chunk.
C4_RoleBeforeContent ==
    \A i \in 1..Len(out) :
        out[i].hasContent => \E j \in 1..(i - 1) : out[j].role

\* C5: whenever the sentinel is written, the chunk right before
\* it has finish_reason "stop" and is the only such chunk of the stream.
C5_FinishBeforeDone ==
    \A i \in DoneIndexes :
        /\ i > 1
        /\ out[i - 1].type = "chunk" /\ out[i - 1].finish_reason = "stop"
        /\ Cardinality({j \in 1..Len(out) : out[j].finish_reason = "stop"}) = 1

\* C6: the step of the client's 'close' sets closed, calls unsubscribe and
\* aborts the controller given to dispatch, and writes nothing; no later step
\* writes to the response or ends it.
C6_ClientClose ==
    [][/\ (~reqClosed /\ reqClosed') =>
            /\ closed' /\ aborted'
            /\ unsubCalls' = unsubCalls + 1 /\ ~subscribed'
            /\ out' = out /\ endCalls' = endCalls
       /\ reqClosed => (out' = out /\ endCalls' = endCalls)]_vars

\* C6 witness: the client closed an open stream; a lifecycle end and the
\* dispatch completion came afterwards and no sentinel was written.
C6_Witness ==
    /\ reqClosed /\ aborted /\ pc = "settled" /\ NumDone = 0
    /\ evt.runId = RunId /\ evt.stream = "lifecycle" /\ evt.data.phase = "end"

\* C7: a rejection while the stream is open writes a content
\* chunk with the error message and finish_reason null, then a separate
\* finish chunk, then the sentinel.
C7_ErrorThenFinish ==
    [][(CatchStep /\ ~closed) =>
        out' = out \o <<ContentChunk(ErrorPrefix \o rejection), FinishChunk,
                        DoneSentinel>>]_vars

\* C8: when .then runs on an open stream with agentRunStarted false and final
\* fragments in the sink, it writes the role chunk (none was written before),
\* one content chunk with the fragments joined by a blank line, one finish
\* chunk and the sentinel, and nothing else.
C8_SlashFallback ==
    [][(ThenStep /\ ~closed /\ ~agentRunStarted /\ finalReplyParts # <<>>) =>
        /\ out' = RoleFirst \o
                  <<ContentChunk(Join(finalReplyParts, BlankLine)),
                    FinishChunk, DoneSentinel>>
        /\ out = <<>> => Len(out') = 4 /\ out'[1] = RoleChunk]_vars

\* C8 witness: two fragments "hi" and "y" and no event: the whole transcript
\* is role, "hi\n\ny", finish, [DONE].
C8_Witness ==
    /\ pc = "settled" /\ ~agentRunStarted /\ nEvents = 0
    /\ finalReplyParts = << <<"h", "i">>, <<"y">> >>
    /\ out = <<RoleChunk, ContentChunk(<<"h", "i", "\n", "\n", "y">>),
               FinishChunk, DoneSentinel>>

\* C9 (as stated): when .then runs on an open stream, accumulated final text
\* is written as role (unless written), one content chunk and a finish chunk
\* before the sentinel, whether or not onAgentRunStart was called; without
\* text only the sentinel is written.
C9_FallbackAlways ==
    [][(ThenStep /\ ~closed) =>
        IF finalReplyParts # <<>>
        THEN out' = RoleFirst \o
                    <<ContentChunk(Join(finalReplyParts, BlankLine)),
                      FinishChunk, DoneSentinel>>
        ELSE out' = Append(out, DoneSentinel)]_vars

\* C9 (amended): when .then runs on an open stream, accumulated final text is
\* written (role unless written, one content chunk, a finish chunk, then the
\* sentinel) only if onAgentRunStart was never called; if it was called, or
\* the sink holds no text, the sentinel alone is written.
C9_FallbackOnlyWithoutRun ==
    [][(ThenStep /\ ~closed) =>
        /\ closed'
        /\ IF ~agentRunStarted /\ finalReplyParts # <<>>
           THEN /\ Len(out') = Len(RoleFirst) + 3
                /\ SubSeq(out', 1, Len(RoleFirst)) = RoleFirst
                /\ out'[Len(out') - 2].hasContent
                /\ out'[Len(out') - 2].content =
                       Join(finalReplyParts, BlankLine)
                /\ out'[Len(out') - 1] = FinishChunk
                /\ out'[Len(out')] = DoneSentinel
           ELSE out' = Append(out, DoneSentinel)]_vars

\* C9 witness: the agent run started, the sink holds text, no lifecycle event
\* closed the stream, and .then wrote the sentinel alone.
C9_Witness ==
    /\ pc = "settled" /\ agentRunStarted /\ ~reqClosed
    /\ finalReplyParts # <<>> /\ rejection = NoRejection
    /\ out = <<DoneSentinel>>

\* C10: closed implies unsubscribe has been called (and the handler is off
\* the bus); unsubscribe is called only by steps that close the stream, at
\* most once by each closing path.
C10_ClosedImpliesUnsubscribed ==
    /\ closed <=> unsubCalls >= 1
    /\ closed <=> ~subscribed
    /\ unsubCalls <= 2
    /\ unsubCalls = 2 => reqClosed

\* C10 witness: the stream finished normally and the client's 'close' then
\* called unsubscribe a second time.
C10_Witness ==
    /\ unsubCalls = 2 /\ NumDone = 1 /\ reqClosed /\ ~subscribed

\* ------------------------------------------------- claims on the shared bus
RECURSIVE EventsOf(_, _)
\* The events of log that carry runId, in order.
EventsOf(runId, log) ==
    IF log = <<>> THEN <<>>
    ELSE IF Head(log).runId = runId
         THEN <<Head(log)>> \o EventsOf(runId, Tail(log))
    ELSE EventsOf(runId, Tail(log))

RECURSIVE Replay(_, _)
\* The state of a request whose handler was called with the events of log.
Replay(st, log) ==
    IF log = <<>> THEN st
    ELSE Replay(HandleEvent(st, Head(log)), Tail(log))

\* C11: with two streaming requests on the shared bus, the transcript and the
\* wroteRole/closed state of each are those it would have had if only the
\* events carrying its own runId had been published: the events published
\* for the other request change nothing of it.
C11_NoCrossTalk ==
    \A s \in StreamIds :
        streams[s] = Replay(InitStream(s), EventsOf(RunIdOf[s], busLog))

\* Events of A, then B's content, then A's end: A is closed with its
\* transcript, B holds only its own delta and is still open.
C11_Witness ==
    /\ Len(busLog) = 3
    /\ busLog[1].runId = RunId /\ busLog[2].runId = OtherRunId
    /\ busLog[3].runId = RunId
    /\ streams["A"].closed
    /\ streams["A"].out =
          <<RoleChunk, ContentChunk(<<"a">>), FinishChunk, DoneSentinel>>
    /\ ~streams["B"].closed
    /\ streams["B"].out = <<RoleChunk, ContentChunk(<<"b">>)>>

\* ------------------------------------------- claims on the request handler
\* The request passes every check made before the dispatch.
PassesValidation ==
    /\ request.pathOk /\ request.method = "POST"
    /\ request.authOk /\ request.bodyOk
    /\ BuildAgentPrompt(request.messages).message # <<>>

\* The handler has gone past the checks made before the dispatch.
PastChecks == hpc \notin {"route", "auth", "body", "prompt"}

\* C12: dispatchInboundMessage has been called exactly once as soon as a
\* request has passed validation, on the streaming and on the non-streaming
\* path, and stays called once whatever happens next, a failure included; it
\* is called zero times for a request rejected before that point.
C12_DispatchOnce ==
    dispatchCalls = IF PassesValidation /\ PastChecks THEN 1 ELSE 0

\* A non-streaming request whose dispatch failed: answered 500, one call.
C12_Witness ==
    /\ hpc = "returned" /\ ~request.stream
    /\ Len(responses) = 1 /\ responses[1].status = 500
    /\ dispatchCalls = 1

\* The normalized prompt of the request has an empty message.
EmptyPrompt == BuildAgentPrompt(request.messages).message = <<>>

\* C13: a messages value that is missing or not an array, is empty, holds only
\* a user message with empty or whitespace-only content, or holds only system
\* messages, has an empty normalized message; a request with an empty
\* normalized message never causes a dispatch call, a bus subscription or an
\* SSE header write, and once it has gone through the checks it is answered
\* by the 400 invalid_request_error whose text cites the missing user message,
\* and by nothing else.
C13_EmptyMessageRejected ==
    /\ request.messages \in EmptyMessagesInputs => EmptyPrompt
    /\ EmptyPrompt =>
          /\ dispatchCalls = 0 /\ subscriptions = 0 /\ sseHeaders = 0
          /\ (request.pathOk /\ request.method = "POST" /\ request.authOk
                /\ request.bodyOk /\ PastChecks) =>
                /\ hpc = "returned" /\ returned = "true"
                /\ responses =
                      <<ErrorResponse(400, "invalid_request_error",
                                      MissingUserMessageText)>>

\* A streaming request holding only a system message has been answered 400.
C13_Witness ==
    /\ hpc = "returned" /\ request.stream
    /\ request.messages = ArrayOf(<<SystemMsg(<<"S">>)>>)
    /\ Len(responses) = 1 /\ responses[1].status = 400
    /\ responses[1].errorMessage = MissingUserMessageText
    /\ sseHeaders = 0

\* ---------------------------------------- claims on the streaming path (2)
\* The handler is called with a lifecycle event of this request's runId while
\* the stream is open.
OwnLifecycleStep ==
    /\ EventStep /\ ~closed
    /\ evt'.runId = RunId /\ evt'.stream = "lifecycle"

\* C14: a lifecycle event of this runId with phase end or error, received
\* while the stream is open, appends the finish chunk (no content,
\* finish_reason "stop") and then the sentinel, ends the response once and
\* closes the stream; one with phase start or any other phase writes nothing
\* and leaves closed and wroteRole as they were.
C14_LifecycleEvents ==
    [][OwnLifecycleStep =>
         IF evt'.data.phase \in {"end", "error"} THEN
             /\ out' = out \o <<FinishChunk, DoneSentinel>>
             /\ ~FinishChunk.hasContent /\ FinishChunk.finish_reason = "stop"
             /\ closed' /\ endCalls' = endCalls + 1
             /\ wroteRole' = wroteRole
         ELSE
             /\ out' = out /\ closed' = closed /\ wroteRole' = wroteRole
             /\ endCalls' = endCalls]_vars

\* The third event is an error event of this runId: it closed the stream
\* behind the delta written before it.
C14_Witness ==
    /\ evt.runId = RunId /\ evt.stream = "lifecycle" /\ evt.data.phase = "error"
    /\ nEvents = 3 /\ closed /\ endCalls = 1
    /\ out = <<RoleChunk, ContentChunk(<<"a">>), FinishChunk, DoneSentinel>>

\* The handler is called with an assistant event of this request's runId
\* while the stream is open.
OwnAssistantStep ==
    /\ EventStep /\ ~closed
    /\ evt'.runId = RunId /\ evt'.stream = "assistant"

\* The field of an event carries text: it is a string and is not empty.
CarriesText(field) == field.str /\ field.val # <<>>

\* C15: an assistant event of this runId received while the stream is open is
\* written as exactly one content chunk (after the role chunk when it is the
\* first) carrying the delta when the delta carries text, carrying the full
\* text when the delta carries no text and the full text is not empty; it
\* writes nothing when both are empty or absent.
C15_DeltaOrText ==
    [][OwnAssistantStep =>
         LET delta == evt'.data.delta
             text == evt'.data.text IN
         IF CarriesText(delta)
             THEN out' = Append(RoleFirst, ContentChunk(delta.val))
         ELSE IF CarriesText(text)
             THEN out' = Append(RoleFirst, ContentChunk(text.val))
         ELSE out' = out]_vars

\* ---------------------------------------- claims on the request handler (2)
\* The positions of s that hold something else than white space.
TextIndexes(s) == {i \in 1..Len(s) : ~IsSpace(s[i])}

\* s from its first to its last character that is not white space.
Trimmed(s) ==
    IF TextIndexes(s) = {} THEN <<>>
    ELSE SubSeq(s,
                CHOOSE i \in TextIndexes(s) : \A j \in TextIndexes(s) : i <= j,
                CHOOSE i \in TextIndexes(s) : \A j \in TextIndexes(s) : j <= i)

RECURSIVE FinalTexts(_)
\* The trimmed texts of the deliveries of kind final whose text holds more
\* than white space, in call order.
FinalTexts(calls) ==
    IF calls = <<>> THEN <<>>
    ELSE LET call == Head(calls) IN
         IF /\ call.kind = "final"
            /\ call.payload.str
            /\ TextIndexes(call.payload.val) # {}
         THEN <<Trimmed(call.payload.val)>> \o FinalTexts(Tail(calls))
         ELSE FinalTexts(Tail(calls))

\* C16: after any sequence of deliver(payload, info) calls, finalReplyParts
\* holds exactly the trimmed texts of the calls of kind final whose trimmed
\* text is not empty, in call order; calls of another kind and calls with an
\* absent, empty or white-space text have changed nothing.
C16_FinalPartsOnly == nsParts = FinalTexts(deliveries)

\* A block delivery was discarded and a final one kept, trimmed.
C16_Witness ==
    /\ Len(deliveries) = 2
    /\ deliveries[1] = [payload |-> JStr(<<"h", "i">>), kind |-> "block"]
    /\ deliveries[2] = [payload |-> JStr(<<" ", "y", "\n">>), kind |-> "final"]
    /\ nsParts = << <<"y">> >>

\* A response is sent in this step.
Responds == Len(responses') = Len(responses) + 1

\* C17: on the non-streaming path a 200 response is sent only by the step in
\* which waitForIdle() resolves, the dispatch having resolved before; it is
\* the first and only response; its content is the accumulated final
\* fragments joined by a blank line, or the placeholder when there is none;
\* its finish_reason is "stop" and its three usage counters are 0.
C17_Completion ==
    [][(Responds /\ responses'[Len(responses')].status = 200) =>
         LET response == responses'[1] IN
         /\ hpc = "nsWaitIdle" /\ ~request.stream
         /\ responses = <<>>
         /\ response.object = "chat.completion"
         /\ response.content =
               IF FinalTexts(deliveries) = <<>> THEN NoResponseText
               ELSE Join(FinalTexts(deliveries), <<"\n", "\n">>)
         /\ response.finish_reason = "stop"
         /\ response.usage.prompt_tokens = 0
         /\ response.usage.completion_tokens = 0
         /\ response.usage.total_tokens = 0]_vars

\* A dispatch that finalized "hi" was answered with the content "hi".
C17_Witness ==
    /\ hpc = "returned"
    /\ Len(deliveries) = 1 /\ deliveries[1].kind = "final"
    /\ deliveries[1].payload = JStr(<<"h", "i">>)
    /\ responses = <<CompletionResponse(<<"h", "i">>)>>

\* The non-streaming request has called the dispatch.
NsDispatched == ~request.stream /\ dispatchCalls = 1

\* The handler has returned with exactly one JSON body sent.
NsAnswered == hpc = "returned" /\ Len(responses) = 1

\* The 500 answer of the catch block.
IsApiError(response) ==
    /\ response.status = 500 /\ response.object = "error"
    /\ response.errorType = "api_error" /\ response.errorMessage \in Errs

\* C18: on the non-streaming path nothing is sent while the dispatch or
\* waitForIdle() is pending; when one of them rejects the handler sends one
\* response, the 500 error object of type api_error, and no 200; it returns
\* true and never throws; and, the dispatch and waitForIdle() settling, every
\* non-streaming request that reached the dispatch ends with exactly one
\* JSON body.
C18_RejectionAnswered ==
    /\ [](hpc \in {"nsDispatching", "nsWaitIdle"} => responses = <<>>)
    /\ []((NsDispatched /\ hpc = "returned") =>
            /\ returned = "true"
            /\ Len(responses) = 1
            /\ responses[1].status = 200 \/ IsApiError(responses[1]))
    /\ [][(hpc = "nsDispatching" /\ hpc' = "returned") =>
            (Len(responses') = 1 /\ IsApiError(responses'[1]))]_vars
    /\ (NsDispatched ~> NsAnswered)

\* waitForIdle() rejected after a final fragment had been delivered: the one
\* answer is the 500 error.
C18_Witness ==
    /\ hpc = "returned" /\ returned = "true"
    /\ nsParts = << <<"h", "i">> >>
    /\ responses = <<ErrorResponse(500, "api_error", <<"x">>)>>

\* ------------------------------------------------ claims on buildAgentPrompt
\* The filtered turn sequence of the input.
Turns == ConversationEntries(AsMessages(messagesIn))

\* i is the position of the current turn: the last turn of role user or
\* tool, or the last turn when there is none.
IsCurrent(i) ==
    /\ i \in 1..Len(Turns)
    /\ \/ /\ Turns[i].role \in {StrUser, StrTool}
          /\ \A j \in (i + 1)..Len(Turns) : Turns[j].role \notin {StrUser, StrTool}
       \/ /\ \A j \in 1..Len(Turns) : Turns[j].role \notin {StrUser, StrTool}
          /\ i = Len(Turns)

RECURSIVE SystemBodies(_)
\* The trimmed contents, when not empty, of the messages whose trimmed role
\* is system or developer, in input order.
SystemBodies(messages) ==
    IF messages = <<>> THEN <<>>
    ELSE LET msg == Head(messages) IN
         IF /\ msg.obj /\ msg.role.str
            /\ Trimmed(msg.role.val) \in {StrSystem, StrDeveloper}
            /\ TextIndexes(ExtractTextContent(msg.content)) # {}
         THEN <<Trimmed(ExtractTextContent(msg.content))>>
                 \o SystemBodies(Tail(messages))
         ELSE SystemBodies(Tail(messages))

\* The characters the system and developer messages of the inputs are made
\* of; no other message of the inputs and no sender name holds them.
SystemChars == {"S", "V"}

\* s holds a character of a system or developer message.
HoldsSystemText(s) == \E i \in 1..Len(s) : s[i] \in SystemChars

\* C20: for every input, extraSystemPrompt is the non-empty trimmed bodies of
\* the system and developer messages joined by a double newline, in input
\* order, and is absent when there is none; no turn of the turn sequence has
\* the role system or developer, and their text is neither in a turn's body
\* nor in the message.
C20_SystemOnlyInExtra ==
    promptOut.done =>
        LET bodies == SystemBodies(AsMessages(messagesIn)) IN
        /\ promptOut.extraSystemPrompt =
              IF bodies = <<>> THEN JUndefined
              ELSE JStr(Join(bodies, <<"\n", "\n">>))
        /\ \A i \in 1..Len(Turns) :
              /\ Turns[i].role \notin {StrSystem, StrDeveloper}
              /\ ~HoldsSystemText(Turns[i].entry.body)
        /\ ~HoldsSystemText(promptOut.message)

\* A system and a developer message before a user message: both bodies are
\* in extraSystemPrompt, the message is the user's text.
C20_Witness ==
    /\ promptOut.done
    /\ Len(messagesIn.items) = 3
    /\ promptOut.extraSystemPrompt = JStr(<<"S", "\n", "\n", "V">>)
    /\ promptOut.message = <<"C">>

\* ------------------------------------------- claims on buildAgentPrompt (2)
\* The element is an object with a supported role and a text: its trimmed
\* role is one of the six roles and its trimmed text is not empty.
WellFormed(msg) ==
    /\ msg.obj /\ msg.role.str
    /\ Trimmed(msg.role.val) \in
          {StrSystem, StrDeveloper, StrUser, StrAssistant, StrTool, StrFunction}
    /\ TextIndexes(ExtractTextContent(msg.content)) # {}

RECURSIVE WellFormedOnly(_)
\* The array without its malformed and unsupported elements.
WellFormedOnly(items) ==
    IF items = <<>> THEN <<>>
    ELSE IF WellFormed(Head(items))
         THEN <<Head(items)>> \o WellFormedOnly(Tail(items))
    ELSE WellFormedOnly(Tail(items))

\* The characters the malformed and unsupported elements of the inputs are
\* made of ("O" of the observer, "X" of the message without a role); no
\* other element of the inputs and no sender name holds them.
DroppedChars == {"O", "X"}

\* s holds a character of a malformed or unsupported element.
HoldsDroppedText(s) == \E i \in 1..Len(s) : s[i] \in DroppedChars

\* C21: buildAgentPrompt returns a result for every input; a value that is
\* not an array gives the result of the empty array; the elements that are
\* not objects, have a missing or empty role, an empty text, or a role
\* outside the six supported ones put nothing in the message, the turns or
\* extraSystemPrompt, and the result is the one of the input without them.
C21_MalformedDropped ==
    promptOut.done =>
        LET kept == ArrayOf(WellFormedOnly(AsMessages(messagesIn))) IN
        /\ promptOut.message = BuildAgentPrompt(kept).message
        /\ promptOut.extraSystemPrompt = BuildAgentPrompt(kept).extraSystemPrompt
        /\ Len(Turns) = Len(ConversationEntries(kept.items))
        /\ ~HoldsDroppedText(promptOut.message)
        /\ ~HoldsDroppedText(promptOut.extraSystemPrompt.val)
        /\ ~messagesIn.isArray =>
              /\ promptOut.message = <<>>
              /\ promptOut.extraSystemPrompt = JUndefined

\* An observer message and an element that is no object around a user
\* message: the message is the user's text alone.
C21_Witness ==
    /\ promptOut.done
    /\ messagesIn =
          ArrayOf(<<Msg(JStr(StrObserver), TextContent(<<"O">>), JUndefined),
                    UserMsg(<<"A">>), NonObjectMsg>>)
    /\ promptOut.message = <<"A">>
    /\ promptOut.extraSystemPrompt = JUndefined

\* ---------------------------------------- claims on the request handler (3)
\* The request is on the path, is a POST, is authorized and has a readable
\* body.
GateOk ==
    /\ request.pathOk /\ request.method = "POST"
    /\ request.authOk /\ request.bodyOk

\* The answer the gating gives the request, as a range of status codes; none
\* when the path is another one.
GateStatus ==
    IF ~request.pathOk THEN {}
    ELSE IF request.method # "POST" THEN {405}
    ELSE IF ~request.authOk THEN {401}
    ELSE 400..499

\* C22: on the path, the method is checked first, then the authorization,
\* then the body: a request failing one of them is answered once, by 405, 401
\* or a 4xx of the body reader in that order of precedence, and the handler
\* returns true; on another path it returns false and answers nothing; in
\* all these cases the prompt is never built, the dispatch never called,
\* nothing subscribed and no SSE header written, and only a request passing
\* the three checks reaches the prompt normalization.
C22_Gating ==
    /\ (hpc \notin {"route", "auth", "body", "returned"}) => GateOk
    /\ ~GateOk =>
          /\ prompt = NoResult
          /\ dispatchCalls = 0 /\ subscriptions = 0 /\ sseHeaders = 0
          /\ hpc = "returned" =>
                IF request.pathOk THEN
                    /\ returned = "true"
                    /\ Len(responses) = 1
                    /\ responses[1].status \in GateStatus
                ELSE returned = "false" /\ responses = <<>>

\* A GET without authorization has been answered 405, not 401.
C22_Witness ==
    /\ hpc = "returned" /\ returned = "true"
    /\ request.pathOk /\ request.method = "GET" /\ ~request.authOk
    /\ Len(responses) = 1 /\ responses[1].status = 405

\* ---------------------------------------- claims on the streaming path (3)
\* The positions of the role-announcement chunks in the transcript.
RoleIndexes == {i \in 1..Len(out) : out[i].role}

\* C23: whatever the deltas and the closing path, the transcript holds at
\* most one role-announcement chunk; it carries no content, the chunk written
\* with it and right behind it is a content chunk, and no content chunk comes
\* before it: it is written in the step of the first content write.
C23_OneRoleChunk ==
    /\ Cardinality(RoleIndexes) <= 1
    /\ \A i \in RoleIndexes :
          /\ out[i] = RoleChunk /\ ~out[i].hasContent /\ out[i].content = <<>>
          /\ i < Len(out) /\ out[i + 1].hasContent
          /\ \A j \in 1..(i - 1) : ~out[j].hasContent
    /\ RoleIndexes # {} => wroteRole

\* Two deltas, then a lifecycle end: one role chunk, before the first delta.
C23_Witness ==
    /\ out = <<RoleChunk, ContentChunk(<<"a">>), ContentChunk(<<"b">>),
               FinishChunk, DoneSentinel>>
    /\ closed

\* ------------------------------------ claims on syncExternalCliCredentials
\* The profile ids of the provider anthropic.
AnthropicIds == {AnthropicDefaultId, AnthropicClaudeCliId}

\* anthropic:default, before the call, was not an OAuth credential of the
\* provider anthropic: it was absent, an API key, a token, or of another
\* provider.
DefaultWasNotOAuth ==
    LET before == storeBefore[AnthropicDefaultId] IN
    \/ ~before.present
    \/ before.type \in {"api_key", "token"}
    \/ before.provider # "anthropic"

\* C24: when anthropic:default is absent, is an API key or a token, or is of
\* another provider, a call leaves both anthropic profiles as they were and
\* never calls the Claude CLI reader; anthropic:claude-cli is never created,
\* and anthropic:default is only ever replaced where an OAuth credential of
\* anthropic stood.
C24_DefaultNotConverted ==
    /\ store[AnthropicClaudeCliId] = storeBefore[AnthropicClaudeCliId]
    /\ DefaultWasNotOAuth =>
          /\ \A p \in AnthropicIds : store[p] = storeBefore[p]
          /\ readCalls["claude"] = 0

\* The call is over on a store whose anthropic:default was an API key, the
\* other readers having been read: the key is still there.
C24_Witness ==
    /\ spc = "done"
    /\ storeBefore[AnthropicDefaultId].type = "api_key"
    /\ store[AnthropicDefaultId] = storeBefore[AnthropicDefaultId]
    /\ readCalls = [qwen |-> 1, minimax |-> 1, claude |-> 0]
    /\ mutated

\* The synced profiles: per reader, the profile it feeds and its provider.
SyncTargets ==
    [qwen |-> [profileId |-> QwenCliProfileId, provider |-> "qwen-portal"],
     minimax |-> [profileId |-> MiniMaxCliProfileId,
                  provider |-> "minimax-portal"],
     claude |-> [profileId |-> AnthropicDefaultId, provider |-> "anthropic"]]

\* The credential the profile of the reader held before the call.
Before(r) == storeBefore[SyncTargets[r].profileId]

\* The credential the profile of the reader holds.
Stored(r) == store[SyncTargets[r].profileId]

\* The profile is one the call looks at: any for qwen and minimax, an OAuth
\* credential of anthropic for anthropic:default.
IsSynced(r) ==
    r = "claude" => (Before(r).present /\ Before(r).type = "oauth"
                        /\ Before(r).provider = "anthropic")

\* The credential is of the expected provider and has no numeric expiry or
\* an expiry later than now + EXTERNAL_CLI_NEAR_EXPIRY_MS.
NotNearExpiry(r) ==
    /\ Before(r).present
    /\ Before(r).provider = SyncTargets[r].provider
    /\ ~Before(r).expires.num \/ Before(r).expires.val > now + NearExpiryMs

\* C25 (as stated): for each synced profile whose credential is of the
\* expected provider and has no numeric expiry or an expiry later than now +
\* EXTERNAL_CLI_NEAR_EXPIRY_MS, the reader is not called and the credential
\* is unchanged.
C25_FreshNotRead ==
    \A r \in Readers :
        (IsSynced(r) /\ NotNearExpiry(r)) =>
            readCalls[r] = 0 /\ Stored(r) = Before(r)

\* C25 (amended): for each synced profile whose credential is of type oauth
\* or token, of the expected provider, and has no numeric expiry or an expiry
\* later than now + EXTERNAL_CLI_NEAR_EXPIRY_MS, the reader is not called and
\* the credential is unchanged; when it is so for the three profiles, or
\* anthropic:default is not synced at all, the call returns false.
C25_FreshOAuthOrTokenNotRead ==
    /\ \A r \in Readers :
          (IsSynced(r) /\ NotNearExpiry(r)
              /\ Before(r).type \in {"oauth", "token"}) =>
              readCalls[r] = 0 /\ Stored(r) = Before(r)
    /\ (\A r \in Readers :
           ~IsSynced(r) \/ (NotNearExpiry(r)
                               /\ Before(r).type \in {"oauth", "token"})) =>
          ~mutated /\ store = storeBefore

\* The call is over; qwen held a token without expiry and anthropic:default
\* an OAuth credential far from its expiry: neither was read, while minimax,
\* expired, was read and replaced.
C25_Witness ==
    /\ spc = "done"
    /\ Before("qwen") = Credential("token", "qwen-portal", "old", NoExpiry)
    /\ Before("claude") =
          Credential("oauth", "anthropic", "old", Expiry(MaxTime))
    /\ readCalls = [qwen |-> 0, minimax |-> 1, claude |-> 0]
    /\ Stored("qwen") = Before("qwen") /\ Stored("claude") = Before("claude")
    /\ mutated

\* The credential of the profile was missing, or expired (expires <= now).
MissingOrExpired(r) ==
    \/ ~Before(r).present
    \/ Before(r).expires.num /\ Before(r).expires.val <= now

\* The reader was called and returned an OAuth credential.
ReturnedOAuth(r) ==
    /\ readCalls[r] > 0
    /\ readResult[r].present
    /\ readResult[r].type = "oauth"

\* C26: once the call is over, for each synced profile whose credential was
\* missing or expired, the reader has been called exactly once, and when it
\* returned an OAuth credential the profile holds that credential.
C26_MissingOrExpiredSynced ==
    spc = "done" =>
        \A r \in Readers :
            (IsSynced(r) /\ MissingOrExpired(r)) =>
                /\ readCalls[r] = 1
                /\ ReturnedOAuth(r) => Stored(r) = readResult[r]

\* The call is over: qwen was missing, minimax and the OAuth anthropic:default
\* were expired, each reader returned an OAuth credential with an earlier
\* expiry than now, and the three profiles hold what was returned.
C26_Witness ==
    /\ spc = "done"
    /\ ~Before("qwen").present
    /\ Before("minimax") =
          Credential("oauth", "minimax-portal", "old", Expiry(StartTime))
    /\ Before("claude") =
          Credential("oauth", "anthropic", "old", Expiry(StartTime))
    /\ \A r \in Readers :
          /\ readCalls[r] = 1
          /\ readResult[r] =
                Credential("oauth", SyncTargets[r].provider, "new", Expiry(0))
          /\ Stored(r) = readResult[r]

\* The profiles whose credential differs from the one held before the call.
ReplacedProfiles == {p \in ProfileIds : store[p] # storeBefore[p]}

\* C27: once the call is over, it returned true exactly when some profile
\* holds a credential that differs from the one it held before the call, and
\* a profile that differs is one of the three synced profiles and holds what
\* its reader returned; when it returned false the profiles are those of
\* before the call.
C27_MutatedIffReplaced ==
    spc = "done" =>
        /\ mutated <=> ReplacedProfiles # {}
        /\ \A r \in Readers :
              SyncTargets[r].profileId \in ReplacedProfiles =>
                  ReturnedOAuth(r) /\ Stored(r) = readResult[r]
        /\ ReplacedProfiles \subseteq
              {SyncTargets[r].profileId : r \in Readers}
        /\ ~mutated => store = storeBefore

\* The call is over and returned false although a reader returned an OAuth
\* credential: the expired profile already held that very credential.
C27_Witness ==
    /\ spc = "done"
    /\ ~mutated
    /\ store = storeBefore
    /\ readCalls["qwen"] = 1
    /\ readResult["qwen"] = Before("qwen")
    /\ Before("qwen").type = "oauth"

\* The `agent` calls made so far that went through.
SucceededCalls == {i \in 1..Len(agentCalls) : agentCalls[i].result = "ok"}

\* The `agent` calls made so far that carried the fallback notice.
FallbackCalls ==
    {i \in 1..Len(agentCalls) : agentCalls[i].message = "fallback notice"}

\* C28: at most 3 `agent` calls carry the announcement and none follows a
\* call that went through; a fallback notice is the fourth call, after three
\* failed announcements, and there is at most one; the flow returns only
\* after a success or after the fallback notice, true exactly when some call
\* went through and false when the four calls failed.
C28_AnnounceRetry ==
    /\ AnnounceAttempts <= 3
    /\ SucceededCalls \subseteq {Len(agentCalls)}
    /\ FallbackCalls \subseteq {4}
    /\ FallbackCalls # {} =>
          \A i \in 1..3 : agentCalls[i] \in
              {AgentCall("announce", r) : r \in CallResults \ {"ok"}}
    /\ apc = "returned" =>
          /\ didAnnounce \in {"true", "false"}
          /\ didAnnounce = "true" <=> SucceededCalls # {}
          /\ didAnnounce = "false" =>
                Len(agentCalls) = 4 /\ FallbackCalls = {4}
    /\ apc # "returned" => didAnnounce = "pending" /\ SucceededCalls = {}

\* Three announcements failed, the fallback notice went through and the flow
\* returned true after four `agent` calls.
C28_Witness ==
    /\ apc = "returned"
    /\ Len(agentCalls) = 4
    /\ AnnounceAttempts = 3
    /\ agentCalls[4] = AgentCall("fallback notice", "ok")
    /\ didAnnounce = "true"

\* ---------------------------------------- claims on the end of the stream
\* The response is ended: the sentinel is written and res.end() was called.
ResponseEnded == NumDone >= 1 /\ endCalls >= 1

\* The step closes the stream without ending the response.
ClosesWithoutEnding == ~closed /\ closed' /\ ~ResponseEnded'

\* C29: the dispatch promise and waitForIdle() settling, every streaming
\* request is eventually closed, whatever events are published and whether
\* or not the client disconnects; the only step that closes the stream
\* without ending the response is the client's disconnection, and a closed
\* stream whose response is not ended is one the client has left.
C29_EventuallyClosed ==
    /\ <>[]closed
    /\ [][ClosesWithoutEnding => (~reqClosed /\ reqClosed')]_vars
    /\ [](closed => ResponseEnded \/ reqClosed)

\* No event was ever published and the client is still there: .then found the
\* stream open after waitForIdle() and closed it, ending the response.
C29_Witness ==
    /\ pc = "settled"
    /\ nEvents = 0
    /\ ~reqClosed
    /\ agentRunStarted
    /\ closed
    /\ NumDone = 1 /\ endCalls = 1

\* The step is the client's disconnection.
ClientCloseStep == ~reqClosed /\ reqClosed'

\* C30: on the streaming path the abort controller starts untriggered, the
\* only step that triggers it is the client's disconnection, and a step that
\* closes the stream in any other way (a lifecycle end or error event, the
\* end of .then, .catch) leaves it as it is; once triggered it stays so.
C30_AbortOnlyOnClose ==
    /\ [](aborted => reqClosed)
    /\ [][aborted' # aborted => (ClientCloseStep /\ aborted')]_vars
    /\ [][(~closed /\ closed' /\ ~ClientCloseStep) => ~aborted']_vars

\* The dispatch was rejected and .catch closed the stream with the client
\* still connected: the abort controller is untriggered.
C30_Witness ==
    /\ pc = "settled"
    /\ rejection \in Errs
    /\ closed
    /\ endCalls = 1
    /\ ~reqClosed
    /\ ~aborted

\* ------------------------------------------- claims on a sequence of syncs
\* The step is a call of syncExternalCliCredentials.
SyncCallStep == spc' = "done" /\ storeBefore' = store

\* The step is a call made right after another, the clock unchanged, in which
\* every reader that both calls read returned what it returned before.
SecondCallStep ==
    /\ spc = "done" /\ SyncCallStep
    /\ now' = now
    /\ \A r \in Readers :
          (readCalls[r] > 0 /\ readCalls'[r] > 0) =>
              readResult'[r] = readResult[r]

\* C38: a call made right after another, with the clock unchanged and the
\* readers returning what they returned, returns false and leaves
\* store.profiles as the first call left it.
C38_Idempotent == [][SecondCallStep => (~mutated' /\ store' = store)]_vars

\* A first call replaced a profile with a credential that is itself expired;
\* the second call read the same credential again, changed nothing and
\* returned false.
C38_Witness ==
    /\ spc = "done"
    /\ now = StartTime
    /\ ~mutated
    /\ store = storeBefore
    /\ readCalls["qwen"] = 1
    /\ readResult["qwen"] = Credential("oauth", "qwen-portal", "new", Expiry(0))
    /\ Stored("qwen") = readResult["qwen"]

\* The credential is an OAuth credential of the provider that is not yet
\* expired at the time t.
StillValid(cred, provider, t) ==
    /\ cred.present
    /\ cred.type = "oauth"
    /\ cred.provider = provider
    /\ cred.expires.num /\ cred.expires.val > t

\* C39: in every step of a sequence of syncs, a profile that holds a still
\* valid OAuth credential of the expected provider keeps it or receives a
\* credential whose expires is strictly later.
C39_LifeNeverShortened ==
    [][\A r \in Readers :
          LET p == SyncTargets[r].profileId IN
          (StillValid(store[p], SyncTargets[r].provider, now)
              /\ store'[p] # store[p]) =>
              /\ store'[p].expires.num
              /\ store'[p].expires.val > store[p].expires.val]_vars

\* After the clock moved on, a call found a still valid credential close to
\* its expiry, read an older one from the CLI, and kept the stored one.
C39_Witness ==
    /\ spc = "done"
    /\ now > StartTime
    /\ \E r \in Readers :
          /\ StillValid(Before(r), SyncTargets[r].provider, now)
          /\ readCalls[r] = 1
          /\ readResult[r].present /\ readResult[r].type = "oauth"
          /\ readResult[r].expires.val < Before(r).expires.val
          /\ Stored(r) = Before(r)
    /\ ~mutated

\* ------------------------------------------------ claims on the tenant resolver
\* The last call carried both a channel and an account id.
HasIdentity ==
    /\ tenantCall.ctx.messageChannel # Absent
    /\ tenantCall.ctx.agentAccountId # Absent

\* C37: a call whose pair has a row in tenant_channel_mappings, and whose
\* own query, if it made one, did not fail, returns the workspace_id of that
\* row; the default workspace is returned only to a call that lacks a
\* channel or an account id, has no row, or saw its own query fail.
C37_MappingFirst ==
    /\ (HasIdentity /\ tenantCall.row # NoRow /\ ~tenantCall.error) =>
          tenantCall.result = tenantCall.row
    /\ tenantCall.result = DefaultWorkspace =>
          (~HasIdentity \/ tenantCall.row = NoRow \/ tenantCall.error)

\* ------------------------------------------- claims on the pipeline service
\* The child processes that are running.
Alive == {i \in 1..Len(procs) : procs[i].state = "running"}

\* C31: once stop() has run no timer is set, every child process that is
\* still running has been sent SIGTERM and none was spawned after stop();
\* and no step taken after stop() spawns a process.
C31_NothingOutlivesStop ==
    /\ [](svc = "stopped" =>
            /\ timers = {}
            /\ \A i \in Alive : procs[i].signalled /\ ~procs[i].afterStop)
    /\ [][svc = "stopped" => Len(procs') = Len(procs)]_vars

\* The runGmailPoll calls that have not returned.
InFlight == {c \in 1..Len(cycles) : cycles[c] # "done"}

\* The child processes of the Gmail poll that are running or being spawned.
PollProcs ==
    {i \in 1..Len(procs) :
        /\ procs[i].label \in {"gmail-watcher", "process-notify-queue"}
        /\ procs[i].state \in {"running", "failing"}}

\* C32: at most one runGmailPoll call is in flight, with at most one child
\* process; isPolling is true exactly while one is; and no step taken while
\* one is in flight starts another.
C32_OnePollCycle ==
    /\ [](Cardinality(InFlight) <= 1 /\ Cardinality(PollProcs) <= 1)
    /\ [](isPolling <=> InFlight # {})
    /\ [][InFlight # {} => Len(cycles') = Len(cycles)]_vars

\* A first poll cycle is over and a second one, started by the interval, has
\* reached its second script, the interval still being set.
C32_Witness ==
    /\ Len(cycles) = 2
    /\ cycles[1] = "done" /\ cycles[2] = "notify"
    /\ "pollTimer" \in timers
    /\ "initialDelay" \notin timers
    /\ isPolling

\* The contact-sync child processes that are running.
ContactSyncsAlive == {i \in Alive : procs[i].label = "contact-sync"}

\* C33: at most one contact-sync child process is running at any time,
\* whatever the timer ticks, the exits and the timeouts that came before.
C33_OneContactSync == Cardinality(ContactSyncsAlive) <= 1

\* The send-digest processes spawned so far.
Digests == {i \in 1..Len(procs) : procs[i].label = "send-digest"}

\* The PST hour and the PST day number of the clock, the clock counting the
\* hours from 00:00 UTC of day 0.
HourInPst == (clock - 8) % 24
DayInPst == (clock - 8) \div 24

\* The step spawns send-digest.
DigestSpawnStep ==
    /\ Len(procs') = Len(procs) + 1
    /\ procs'[Len(procs')].label = "send-digest"

\* C34: send-digest is spawned only at an instant whose PST hour is 20 and
\* whose PST date is not the one of the last digest, and that date is then
\* recorded, before the script has done anything; the recorded date changes
\* in no other step and is never later than today; so the digests spawned
\* are at most one for each PST day the clock has been in.
C34_DigestOncePerDay ==
    /\ [][DigestSpawnStep =>
            /\ HourInPst = 20
            /\ lastDigestDate # DayInPst
            /\ lastDigestDate' = DayInPst]_vars
    /\ [][lastDigestDate' # lastDigestDate => DigestSpawnStep]_vars
    /\ [](lastDigestDate <= DayInPst)
    /\ [](Cardinality(Digests) <= DayInPst + 1)

\* The digest of the first day failed to start; it was not tried again that
\* day, and the digest of the second day has been spawned at 20:00 PST.
C34_Witness ==
    /\ Cardinality(Digests) = 2
    /\ \E i \in Digests : procs[i].state = "errored"
    /\ \E i \in Digests : procs[i].state = "running"
    /\ DayInPst = 1 /\ HourInPst = 20
    /\ lastDigestDate = 1

\* The gmail-watcher and process-notify-queue processes spawned so far.
Watchers == {i \in 1..Len(procs) : procs[i].label = "gmail-watcher"}
Notifiers == {i \in 1..Len(procs) : procs[i].label = "process-notify-queue"}

\* The processes of the poll cycle c.
OfCycle(c) == {i \in Watchers \cup Notifiers : procs[i].cycle = c}

\* C35: every process-notify-queue was spawned after a gmail-watcher of the
\* same poll cycle that has exited; a gmail-watcher that has exited, with
\* whatever code, is followed by a process-notify-queue of its cycle; one
\* that failed to spawn is followed by none; a cycle has one watcher and at
\* most one notify queue; and a cycle none of whose scripts is running or
\* being spawned has returned.
C35_WatcherThenNotify ==
    /\ \A j \in Notifiers :
          \E i \in Watchers :
              /\ i < j
              /\ procs[i].cycle = procs[j].cycle
              /\ procs[i].state = "closed"
    /\ \A i \in Watchers :
          /\ procs[i].state = "closed" =>
                \E j \in Notifiers : procs[j].cycle = procs[i].cycle
          /\ procs[i].state = "errored" =>
                \A j \in Notifiers : procs[j].cycle # procs[i].cycle
    /\ \A c \in 1..Len(cycles) :
          /\ Cardinality(OfCycle(c) \cap Watchers) = 1
          /\ Cardinality(OfCycle(c) \cap Notifiers) <= 1
          /\ cycles[c] = "done" <=>
                \A i \in OfCycle(c) : procs[i].state \in {"closed", "errored"}

\* gmail-watcher exited with a non-zero code and process-notify-queue is
\* running after it.
C35_Witness ==
    /\ Len(procs) = 2
    /\ procs[1].label = "gmail-watcher"
    /\ procs[1].state = "closed" /\ procs[1].exit = "nonzero"
    /\ procs[2].label = "process-notify-queue"
    /\ procs[2].state = "running"
    /\ cycles = <<"notify">>

\* The step starts a poll cycle.
PollStartStep == Len(cycles') = Len(cycles) + 1

\* C36: every script that was spawned exiting or failing to spawn, a poll
\* cycle that is running comes to its end with isPolling false again,
\* however its scripts ended; isPolling is false whenever no script of a
\* poll is running or being spawned; and while the interval is set and
\* isPolling is false, the tick of the interval starts a new cycle.
C36_PollNeverBlocked ==
    /\ isPolling ~> ~isPolling
    /\ [](PollProcs = {} => ~isPolling)
    /\ []((~isPolling /\ "pollTimer" \in timers /\ Len(procs) + 2 <= MaxProcs)
             => ENABLED <<PollTick>>_vars)
    /\ [][(~isPolling /\ isPolling') => PollStartStep]_vars

\* A first poll cycle ended on a failed spawn of gmail-watcher, isPolling
\* went back to false, and the interval has started a second cycle.
C36_Witness ==
    /\ Len(cycles) = 2
    /\ cycles = <<"done", "watcher">>
    /\ procs[1].label = "gmail-watcher" /\ procs[1].state = "errored"
    /\ procs[2].label = "gmail-watcher" /\ procs[2].state = "running"
    /\ "initialDelay" \notin timers /\ "pollTimer" \in timers
    /\ isPolling

====
